---- MODULE Spec2Model ----
(***************************************************************************)
(* Model of the acquisition pipeline of MusicSpree:                        *)
(*   SlskdService.downloadTrack / searchTrack / selectBestMatch /          *)
(*   initiateDownload / waitForDownloadCompletion / cleanupSearch,         *)
(*   MusicSpree.downloadTracks / chunkArray and                            *)
(*   LastFMService.removeDuplicates.                                       *)
(*                                                                         *)
(* A JavaScript string is a sequence of one-character strings.  An         *)
(* optional number (file.bitRate, file.size) is <<>> when the field is     *)
(* absent and <<n>> when it is present.  A match score is an integer       *)
(* number of 1/600ths, so that 0.4 is 240, 0.2 is 120, 0.1 is 60, 0.05 is  *)
(* 30, 0.03 is 18, 0.01 is 6, and the thresholds 0.5 and 0.3 are 300 and   *)
(* 180.                                                                    *)
(***************************************************************************)
EXTENDS Integers, Sequences, FiniteSets, TLC

(***************************************************************************)
(* Strings                                                                 *)
(***************************************************************************)

UpperChars == <<"A", "B", "F", "O", "R">>
LowerChars == <<"a", "b", "f", "o", "r">>

\* [A-Za-z0-9_] of the regular expression class \w, over the characters used.
IsWordChar(c) ==
  \/ \E i \in 1..Len(UpperChars) : c = UpperChars[i]
  \/ \E i \in 1..Len(LowerChars) : c = LowerChars[i]
  \/ c \in {"c", "d", "l", "m", "p", "x", "z", "3", "_"}

IsSpaceChar(c) == c = " "

\* String.prototype.toLowerCase, one character.
toLowerChar(c) ==
  IF \E i \in 1..Len(UpperChars) : c = UpperChars[i]
  THEN LowerChars[CHOOSE i \in 1..Len(UpperChars) : c = UpperChars[i]]
  ELSE c

toLowerCase(str) == [i \in 1..Len(str) |-> toLowerChar(str[i])]

\* .replace(/[^\w\s]/g, " ")
replaceNonWord(str) ==
  [i \in 1..Len(str) |->
     IF IsWordChar(str[i]) \/ IsSpaceChar(str[i]) THEN str[i] ELSE " "]

\* .replace(/\s+/g, " "): every run of white space becomes one space.
RECURSIVE collapseSpaces(_)
collapseSpaces(str) ==
  IF Len(str) <= 1 THEN str
  ELSE IF IsSpaceChar(str[1]) /\ IsSpaceChar(str[2])
       THEN collapseSpaces(Tail(str))
       ELSE <<IF IsSpaceChar(str[1]) THEN " " ELSE str[1]>>
              \o collapseSpaces(Tail(str))

\* .trim()
RECURSIVE trimStart(_)
trimStart(str) ==
  IF str # <<>> /\ IsSpaceChar(str[1]) THEN trimStart(Tail(str)) ELSE str

RECURSIVE trimEnd(_)
trimEnd(str) ==
  IF str # <<>> /\ IsSpaceChar(str[Len(str)])
  THEN trimEnd(SubSeq(str, 1, Len(str) - 1))
  ELSE str

trim(str) == trimEnd(trimStart(str))

\* The normalize closure of calculateMatchScore.
normalize(str) == trim(collapseSpaces(replaceNonWord(toLowerCase(str))))

\* String.prototype.includes: needle occurs in hay (the empty needle always).
includes(hay, needle) ==
  \E i \in 0..(Len(hay) - Len(needle)) :
     SubSeq(hay, i + 1, i + Len(needle)) = needle

\* String.prototype.endsWith, used for the anchored extension patterns.
endsWith(str, suffix) ==
  /\ Len(suffix) <= Len(str)
  /\ SubSeq(str, Len(str) - Len(suffix) + 1, Len(str)) = suffix

\* str.split(" "): the pieces between single spaces (empty pieces included).
RECURSIVE split(_)
split(str) ==
  IF \A i \in 1..Len(str) : str[i] # " " THEN <<str>>
  ELSE LET k == CHOOSE i \in 1..Len(str) :
                   /\ str[i] = " "
                   /\ \A j \in 1..(i - 1) : str[j] # " "
       IN  <<SubSeq(str, 1, k - 1)>> \o split(SubSeq(str, k + 1, Len(str)))

\* searchArtist.split(" ").filter((word) => word.length > 2)
longWords(str) == SelectSeq(split(str), LAMBDA w : Len(w) > 2)

\* An optional number is truthy when it is present and not 0.
Truthy(opt) == opt # <<>> /\ opt[1] # 0

(***************************************************************************)
(* Candidate scoring and selection (SlskdService)                          *)
(***************************************************************************)

\* A pattern /\.(e1|e2|...)$/i on file.filename.
hasExtension(filename, exts) ==
  \E e \in exts : endsWith(toLowerCase(filename), <<".">> \o e)

LosslessExts == {<<"f", "l", "a", "c">>, <<"w", "a", "v">>}
Mp3Exts == {<<"m", "p", "3">>}
AudioExts == LosslessExts \cup Mp3Exts
               \cup {<<"m", "4", "a">>, <<"o", "g", "g">>, <<"a", "a", "c">>}

\* countMatches that counts every word as found.
countMatches_everyWord(words, fileName) == Len(words)

\* The number of the words that occur in fileName.
countMatches(words, fileName) ==
  Cardinality({i \in 1..Len(words) : includes(fileName, words[i])})

calculateMatchScore(file, track) ==
  LET fileName == normalize(file.filename)
      searchArtist == normalize(track.artist)
      searchTitle == normalize(track.title)
      artistWords == longWords(searchArtist)
      titleWords == longWords(searchTitle)
      exact == (IF includes(fileName, searchArtist) THEN 240 ELSE 0)
                 + (IF includes(fileName, searchTitle) THEN 240 ELSE 0)
      partialArtist ==
        IF Len(artistWords) > 0
        THEN (countMatches(artistWords, fileName) * 120) \div Len(artistWords)
        ELSE 0
      partialTitle ==
        IF Len(titleWords) > 0
        THEN (countMatches(titleWords, fileName) * 120) \div Len(titleWords)
        ELSE 0
      format ==
        IF hasExtension(file.filename, LosslessExts) THEN 60
        ELSE IF hasExtension(file.filename, Mp3Exts) THEN 30 ELSE 0
      bitrate ==
        IF Truthy(file.bitRate)
        THEN IF file.bitRate[1] >= 320 THEN 30
             ELSE IF file.bitRate[1] >= 256 THEN 18
             ELSE IF file.bitRate[1] >= 192 THEN 6 ELSE 0
        ELSE 0
      score == exact + partialArtist + partialTitle + format + bitrate
  IN  IF score < 600 THEN score ELSE 600

isAcceptableQuality(file) ==
  IF ~hasExtension(file.filename, AudioExts) THEN FALSE
  ELSE IF Truthy(file.bitRate) /\ file.bitRate[1] < 128 THEN FALSE
  ELSE IF Truthy(file.size) /\ file.size[1] < 1024 * 1024 THEN FALSE
  ELSE TRUE

\* scoredResults.sort((a, b) => b.score - a.score): stable, highest first.
RECURSIVE insertByScore(_, _)
insertByScore(sorted, r) ==
  IF sorted = <<>> THEN <<r>>
  ELSE IF Head(sorted).score >= r.score
       THEN <<Head(sorted)>> \o insertByScore(Tail(sorted), r)
       ELSE <<r>> \o sorted

RECURSIVE sortByScore(_)
sortByScore(scored) ==
  IF scored = <<>> THEN <<>>
  ELSE insertByScore(sortByScore(SubSeq(scored, 1, Len(scored) - 1)),
                     scored[Len(scored)])

\* selectBestMatch without the sort: the first file of the list that passes.
selectBestMatch_unsorted(searchResults, track) ==
  IF Len(searchResults) = 0 THEN <<>>
  ELSE
    LET scoredResults ==
          [i \in 1..Len(searchResults) |->
             [file |-> searchResults[i],
              score |-> calculateMatchScore(searchResults[i], track)]]
        qualityFiltered ==
          SelectSeq(scoredResults,
                    LAMBDA r : r.score > 300 /\ isAcceptableQuality(r.file))
        fallbackFiltered ==
          SelectSeq(scoredResults,
                    LAMBDA r : r.score > 180 /\ isAcceptableQuality(r.file))
    IN  IF Len(qualityFiltered) > 0 THEN <<qualityFiltered[1].file>>
        ELSE IF Len(fallbackFiltered) > 0 THEN <<fallbackFiltered[1].file>>
        ELSE <<>>

\* selectBestMatch without the fallback filter.
selectBestMatch_noFallback(searchResults, track) ==
  IF Len(searchResults) = 0 THEN <<>>
  ELSE
    LET scoredResults ==
          sortByScore([i \in 1..Len(searchResults) |->
                         [file |-> searchResults[i],
                          score |-> calculateMatchScore(searchResults[i], track)]])
        qualityFiltered ==
          SelectSeq(scoredResults,
                    LAMBDA r : r.score > 300 /\ isAcceptableQuality(r.file))
    IN  IF Len(qualityFiltered) > 0 THEN <<qualityFiltered[1].file>>
        ELSE <<>>

\* The result is <<>> for null and <<file>> for the selected file.
selectBestMatch(searchResults, track) ==
  IF Len(searchResults) = 0 THEN <<>>
  ELSE
    LET scoredResults ==
          sortByScore([i \in 1..Len(searchResults) |->
                         [file |-> searchResults[i],
                          score |-> calculateMatchScore(searchResults[i], track)]])
        qualityFiltered ==
          SelectSeq(scoredResults,
                    LAMBDA r : r.score > 300 /\ isAcceptableQuality(r.file))
        fallbackFiltered ==
          SelectSeq(scoredResults,
                    LAMBDA r : r.score > 180 /\ isAcceptableQuality(r.file))
    IN  IF Len(qualityFiltered) > 0 THEN <<qualityFiltered[1].file>>
        ELSE IF Len(fallbackFiltered) > 0 THEN <<fallbackFiltered[1].file>>
        ELSE <<>>

(***************************************************************************)
(* Bounds of the model                                                     *)
(***************************************************************************)

\* The largest maxDownloadRetries explored.
MaxRetries == 2
\* The largest concurrentDownloads explored.
MaxConcurrent == 2
\* The longest recommendation list handed to removeDuplicates.
MaxBatch == 3
\* The longest recommendation list when the calls are made one by one.
MaxSeqBatch == 2
\* The number of downloadTracks calls of one process lifetime.
MaxSyncs == 2
\* The number of peer responses of one search.
MaxResponses == 2
\* The number of transfers in one answer of the transfer list.
MaxTransfers == 2
\* The largest number of files in the current recommendations folder.
MaxFiles == 3

(***************************************************************************)
(* Inputs: wanted tracks, and what the download backend may answer         *)
(***************************************************************************)

TrackA == [artist |-> <<"F", "o", "o">>, title |-> <<"B", "a", "r">>]
\* TrackA in another case: the same key for removeDuplicates.
TrackAc == [artist |-> <<"F", "O", "O">>, title |-> <<"B", "a", "r">>]
\* TrackA with punctuation: another key for removeDuplicates, the same
\* normalized artist and title.
TrackAp == [artist |-> <<"F", "o", "o", "!">>, title |-> <<"B", "a", "r">>]
TrackB == [artist |-> <<"B", "o", "o">>, title |-> <<"B", "a", "z">>]
Tracks == {TrackA, TrackAc, TrackAp, TrackB}

MiB == 1024 * 1024

\* "Foo - Bar.flac", 900 kbps, 8 MiB
FileFlac ==
  [filename |-> <<"F", "o", "o", " ", "-", " ", "B", "a", "r", ".", "f", "l", "a", "c">>,
   nameIsString |-> TRUE, bitRate |-> <<900>>, size |-> <<8 * MiB>>]
\* "Foo - Bar.mp3", 64 kbps: below the bitrate floor
FileLowRate ==
  [filename |-> <<"F", "o", "o", " ", "-", " ", "B", "a", "r", ".", "m", "p", "3">>,
   nameIsString |-> TRUE, bitRate |-> <<64>>, size |-> <<>>]
\* "Boo_Baz.mp3", bitrate and size unknown
FileBoo ==
  [filename |-> <<"B", "o", "o", "_", "B", "a", "z", ".", "m", "p", "3">>,
   nameIsString |-> TRUE, bitRate |-> <<>>, size |-> <<>>]
\* "zzz.mp3": matches no track
FileOther ==
  [filename |-> <<"z", "z", "z", ".", "m", "p", "3">>,
   nameIsString |-> TRUE, bitRate |-> <<320>>, size |-> <<3 * MiB>>]
\* A file whose filename is a number, not a string (a malformed body).
FileBadName ==
  [filename |-> <<>>, nameIsString |-> FALSE, bitRate |-> <<>>, size |-> <<>>]
Files == {FileFlac, FileLowRate, FileBoo, FileOther, FileBadName}

\* The peers that answer searches; "" is a response without username.
Peers == {"alice", ""}
\* The peers of the transfer list.
TransferPeers == {"alice", "bob"}

\* One entry of GET /searches/{id}/responses; files is <<>> when the entry
\* has no files array.
PeerResponses ==
  {[username |-> u, files |-> fs] :
     u \in Peers, fs \in {<<>>} \cup {<<f>> : f \in Files}}

SeqsUpTo(S, n) == UNION {[1..k -> S] : k \in 0..n}

ResponseLists == SeqsUpTo(PeerResponses, MaxResponses)

\* searchTrack hands every file over with the peer of its response:
\* allFiles.push({...file, username: response.username, response}).
RECURSIVE allFilesOf(_)
allFilesOf(responses) ==
  IF responses = <<>> THEN <<>>
  ELSE [i \in 1..Len(Head(responses).files) |->
          [filename |-> Head(responses).files[i].filename,
           nameIsString |-> Head(responses).files[i].nameIsString,
           bitRate |-> Head(responses).files[i].bitRate,
           size |-> Head(responses).files[i].size,
           username |-> Head(responses).username]]
         \o allFilesOf(Tail(responses))

\* What downloadTrack makes of a result list, lines 137-170: "empty" (no
\* results), "throws" (normalize is applied to a filename that is not a
\* string and raises a TypeError), "nomatch" (selectBestMatch returned null)
\* or "match" with the file handed to initiateDownload.
processResults(searchResults, track) ==
  IF Len(searchResults) = 0 THEN [kind |-> "empty", file |-> <<>>]
  ELSE IF \E i \in 1..Len(searchResults) : ~searchResults[i].nameIsString
       THEN [kind |-> "throws", file |-> <<>>]
       ELSE LET bestMatch == selectBestMatch(searchResults, track)
            IN  IF bestMatch = <<>> THEN [kind |-> "nomatch", file |-> <<>>]
                ELSE [kind |-> "match", file |-> bestMatch]

\* Every outcome of one search of a track, over the result lists.
SearchOutcomes ==
  [t \in Tracks |-> {processResults(allFilesOf(r), t) : r \in ResponseLists}]

\* The files downloadTrack can hand to initiateDownload.
Candidates ==
  UNION {{o.file[1] : o \in {x \in SearchOutcomes[t] : x.kind = "match"}} :
           t \in Tracks}

TransferStates ==
  {"Queued", "InProgress", "Completed", "Succeeded", "Cancelled", "Failed",
   "TimedOut"}

\* What a file of a transfer reports of its progress: nothing, or
\* bytesTransferred and size.
NoProgress == [bytesTransferred |-> <<>>, size |-> <<>>]
Progresses ==
  {NoProgress, [bytesTransferred |-> <<4 * 1024>>, size |-> <<8 * 1024>>]}

\* The entries of GET /transfers/downloads whose files report a progress of
\* pr; files is <<>> when the entry has no files.
DownloadsWith(pr) ==
  {[username |-> u, state |-> st, files |-> fs] :
     u \in TransferPeers, st \in TransferStates,
     fs \in {<<>>} \cup
            {<<[filename |-> n, bytesTransferred |-> p.bytesTransferred,
                size |-> p.size]>> :
               n \in {FileFlac.filename, FileBoo.filename}, p \in pr}}

Downloads == DownloadsWith({NoProgress})

TransferLists == SeqsUpTo(Downloads, MaxTransfers)

\* Lines 856-868: the progress written to the log, in tenths of a percent;
\* <<>> when nothing is written.
progressOf(f) ==
  IF Truthy(f.bytesTransferred) /\ Truthy(f.size)
  THEN <<(f.bytesTransferred[1] * 1000) \div f.size[1]>>
  ELSE <<>>

\* The for loop of waitForDownloadCompletion over one answer, lines 819-871:
\* found says whether a download of the file's peer holding the file's name
\* was seen, ret is the value returned from inside the loop ("none" when the
\* loop ran to its end).
\* download.username === file.username and
\* download.files?.some((f) => f.filename === file.filename)
matchesFile(download, file) ==
  /\ download.username = file.username
  /\ \E i \in 1..Len(download.files) :
        download.files[i].filename = file.filename

\* scanDownloads with a file that reports all its bytes transferred taken for
\* a finished transfer.
RECURSIVE scanDownloads_byBytes(_, _, _)
scanDownloads_byBytes(downloads, file, found) ==
  IF downloads = <<>> THEN [found |-> found, ret |-> "none"]
  ELSE LET download == Head(downloads)
           matches == matchesFile(download, file)
       IN  IF matches /\ download.state \in {"Completed", "Succeeded"}
           THEN [found |-> TRUE, ret |-> "true"]
           ELSE IF matches /\ download.state \in {"Cancelled", "Failed", "TimedOut"}
           THEN [found |-> TRUE, ret |-> "false"]
           ELSE IF matches /\ \E i \in 1..Len(download.files) :
                                 progressOf(download.files[i]) # <<>>
           THEN [found |-> TRUE, ret |-> "true"]
           ELSE scanDownloads_byBytes(Tail(downloads), file, found \/ matches)

\* scanDownloads with the peer alone identifying the transfer.
RECURSIVE scanDownloads_byPeer(_, _, _)
scanDownloads_byPeer(downloads, file, found) ==
  IF downloads = <<>> THEN [found |-> found, ret |-> "none"]
  ELSE LET download == Head(downloads)
           matches == download.username = file.username
       IN  IF matches /\ download.state \in {"Completed", "Succeeded"}
           THEN [found |-> TRUE, ret |-> "true"]
           ELSE IF matches /\ download.state \in {"Cancelled", "Failed", "TimedOut"}
           THEN [found |-> TRUE, ret |-> "false"]
           ELSE scanDownloads_byPeer(Tail(downloads), file, found \/ matches)

RECURSIVE scanDownloads(_, _, _)
scanDownloads(downloads, file, found) ==
  IF downloads = <<>> THEN [found |-> found, ret |-> "none"]
  ELSE LET download == Head(downloads)
           matches == matchesFile(download, file)
       IN  IF matches /\ download.state \in {"Completed", "Succeeded"}
           THEN [found |-> TRUE, ret |-> "true"]
           ELSE IF matches /\ download.state \in {"Cancelled", "Failed", "TimedOut"}
           THEN [found |-> TRUE, ret |-> "false"]
           ELSE scanDownloads(Tail(downloads), file, found \/ matches)

\* Every outcome of one poll of the transfer list for a file.
PollOutcomes ==
  [file \in Candidates |->
     {scanDownloads(l, file, FALSE) : l \in TransferLists}]

(***************************************************************************)
(* LastFMService.removeDuplicates and MusicSpree.chunkArray                *)
(***************************************************************************)

\* `${track.artist.toLowerCase()}_${track.title.toLowerCase()}`
duplicateKey(track) ==
  toLowerCase(track.artist) \o <<"_">> \o toLowerCase(track.title)

RECURSIVE filterUnseen(_, _)
filterUnseen(tracks, seen) ==
  IF tracks = <<>> THEN <<>>
  ELSE IF duplicateKey(Head(tracks)) \in seen
       THEN filterUnseen(Tail(tracks), seen)
       ELSE <<Head(tracks)>>
              \o filterUnseen(Tail(tracks), seen \cup {duplicateKey(Head(tracks))})

removeDuplicates(tracks) == filterUnseen(tracks, {})

\* for (let i = 0; i < array.length; i += size) chunks.push(array.slice(i, i + size))
RECURSIVE chunkArray(_, _)
chunkArray(array, size) ==
  IF array = <<>> THEN <<>>
  ELSE IF Len(array) <= size THEN <<array>>
       ELSE <<SubSeq(array, 1, size)>>
              \o chunkArray(SubSeq(array, size + 1, Len(array)), size)

\* The track identity: the normalized artist and title.
trackKey(track) == <<normalize(track.artist), normalize(track.title)>>

Keys == {trackKey(t) : t \in Tracks}

(***************************************************************************)
(* State                                                                   *)
(***************************************************************************)

VARIABLES
  cfg,         \* Config: maxDownloadRetries, concurrentDownloads, downloadTimeoutMinutes
  scn,         \* the runs explored: longest recommendation list, number of syncs
  syncs,       \* the downloadTracks calls made so far
  phase,       \* "idle": no downloadTracks call is running; "running"
  chunks,      \* downloadTracks: chunks, as positions of the tracks array
  chunkIndex,  \* downloadTracks: i
  dl,          \* dl[j]: the downloadTrack call of tracks[j]
  successful,  \* downloadTracks: successful
  failed,      \* downloadTracks: failed
  past,        \* past[key]: how the latest finished downloadTrack call of a track
               \* with this key ended ("none" before any)
  probe,       \* the latest call of one function on its own: its arguments and
               \* what it returned
  disk,        \* the files of the recommendations folders, in readdir order
  mgr,         \* RecommendationsManager: config, and its calls so far
  run          \* the syncRecommendations call: its position and its result

vars ==
  <<cfg, scn, syncs, phase, chunks, chunkIndex, dl, successful, failed, past,
    probe, disk, mgr, run>>

\* const maxAttempts = 12 of searchTrack
maxAttempts == 12
\* const checkInterval = 10000 of waitForDownloadCompletion
checkInterval == 10000

\* (maxWaitMinutes || this.config.downloadTimeoutMinutes) * 60 * 1000
maxWait == cfg.downloadTimeoutMinutes * 60 * 1000

Range(seq) == {seq[i] : i \in 1..Len(seq)}

\* A downloadTrack call that has not been made yet.
NoCall(track) ==
  [track |-> track, pc |-> "idle", result |-> "none",
   retries |-> 0, searchIds |-> <<>>,
   attempts |-> 0, searchId |-> 0,
   bestMatch |-> <<>>, elapsed |-> 0, downloadFound |-> FALSE,
   \* what the backend saw, and what happened so far
   created |-> {}, deleted |-> {}, nSearch |-> 0, nInitiate |-> 0,
   nAccepted |-> 0, hadResults |-> FALSE, sawSuccess |-> FALSE,
   succAt |-> 0, delay |-> 0,
   cause |-> "none", prior |-> "none",
   \* what happened in the searchTrack call of the current attempt: a request
   \* failed or its body was malformed; a status poll reported the search
   \* complete; the responses were requested; how the call ended; whether it
   \* returned files
   fault |-> FALSE, completeSeen |-> FALSE, fetched |-> FALSE,
   ended |-> "none", got |-> FALSE]

(***************************************************************************)
(* SlskdService.downloadTrack, as steps on the record d of one call        *)
(***************************************************************************)

\* cleanupAllSearches(searchIds): one DELETE /searches/{id} per kept id;
\* cleanupSearch swallows every failure of the request.
cleanupAllSearches(d) == [d EXCEPT !.deleted = @ \cup Range(d.searchIds)]

\* Lines 214-220: the loop is left, the kept searches are cleaned up.
returnFalse(d) ==
  [cleanupAllSearches(d) EXCEPT
     !.pc = "done", !.result = "false", !.attempts = 0, !.searchId = 0,
     !.bestMatch = <<>>, !.elapsed = 0, !.downloadFound = FALSE]

\* Lines 181-188: the transfer completed.
returnTrue(d) ==
  [cleanupAllSearches(d) EXCEPT
     !.pc = "done", !.result = "true", !.succAt = d.retries + 1,
     !.attempts = 0, !.searchId = 0, !.bestMatch = <<>>, !.elapsed = 0,
     !.downloadFound = FALSE]

\* loopHead with the loop condition retries <= maxDownloadRetries: one attempt
\* too many.
loopHead_inclusive(d) ==
  IF d.retries <= cfg.maxDownloadRetries
  THEN [d EXCEPT !.pc = "submit", !.nSearch = @ + 1, !.attempts = 0,
                 !.searchId = 0, !.bestMatch = <<>>, !.elapsed = 0,
                 !.downloadFound = FALSE, !.delay = 0, !.cause = "none",
                 !.fault = FALSE, !.completeSeen = FALSE, !.fetched = FALSE,
                 !.ended = "none", !.got = FALSE]
  ELSE returnFalse(d)

\* Line 119 and the start of searchTrack: while retries is below the budget
\* the next attempt posts its search; otherwise the loop is left.
loopHead(d) ==
  IF d.retries < cfg.maxDownloadRetries
  THEN [d EXCEPT !.pc = "submit", !.nSearch = @ + 1, !.attempts = 0,
                 !.searchId = 0, !.bestMatch = <<>>, !.elapsed = 0,
                 !.downloadFound = FALSE, !.delay = 0, !.cause = "none",
                 !.fault = FALSE, !.completeSeen = FALSE, !.fetched = FALSE,
                 !.ended = "none", !.got = FALSE]
  ELSE returnFalse(d)

\* Lines 141-142 and 161-162: retries++; continue.  The continue statement
\* goes back to the loop condition and skips lines 209-211.
continueAttempt(d, cause) ==
  loopHead([d EXCEPT !.retries = @ + 1, !.cause = cause])

\* Lines 209-211: if (retries < maxDownloadRetries) await sleep(2000 * retries)
afterAttempt(d) ==
  IF d.retries < cfg.maxDownloadRetries
  THEN [d EXCEPT !.pc = "sleep", !.delay = 2000 * d.retries]
  ELSE loopHead(d)

\* Line 198: retries++ at the end of the try block, then lines 209-211.
failAttempt(d, cause) ==
  afterAttempt([d EXCEPT !.retries = @ + 1, !.cause = cause])

\* catchAttempt with a catch block that throws the error again.
catchAttempt_rethrow(d) ==
  [d EXCEPT !.pc = "done", !.result = "raised", !.cause = "exception"]

\* Lines 199-207: the catch block counts the attempt as failed.
catchAttempt(d) ==
  afterAttempt([d EXCEPT !.retries = @ + 1, !.cause = "exception"])

\* initiateDownload up to its request, lines 651-690: without a username or
\* a filename it returns false and sends nothing.
startInitiate(d) ==
  IF d.bestMatch[1].username = "" \/ d.bestMatch[1].filename = <<>>
  THEN failAttempt(d, "initiate")
  ELSE [d EXCEPT !.pc = "initiate", !.nInitiate = @ + 1]

\* Lines 130-170: searchTrack returned { searchResults, searchId }; outcome
\* is what processResults makes of searchResults, searchId is 0 for null.
onSearchReturn(d, outcome, searchId) ==
  LET d1 == IF searchId # 0
            THEN [d EXCEPT !.searchIds = Append(@, searchId)]
            ELSE d
      d2 == [d1 EXCEPT !.hadResults = @ \/ outcome.kind # "empty",
                       !.got = outcome.kind # "empty",
                       !.ended = IF @ = "none" THEN "responses" ELSE @,
                       !.bestMatch = outcome.file,
                       !.attempts = 0, !.searchId = 0]
  IN  CASE outcome.kind = "empty" -> continueAttempt(d2, "empty")
        [] outcome.kind = "throws" -> catchAttempt(d2)
        [] outcome.kind = "nomatch" -> continueAttempt(d2, "nomatch")
        [] outcome.kind = "match" -> startInitiate(d2)

NoResults == [kind |-> "empty", file |-> <<>>]

\* searchTrack, lines 433-439: the outer catch returns no results and no id.
searchFailed(d) == onSearchReturn(d, NoResults, 0)

\* searchTrack, lines 238-271: the answer of POST /searches.  "id" is a body
\* that holds an id (data.id, data.searchId or a string); "noid" a body
\* without one; "nodata" an empty body; "throw" a request error.
SubmitAnswers == {"id", "noid", "nodata", "throw"}

submitAnswered(d, answer) ==
  IF answer = "id"
  THEN LET id == Cardinality(d.created) + 1
       IN  [d EXCEPT !.pc = "poll", !.searchId = id, !.attempts = 0,
                     !.created = @ \cup {id}]
  ELSE searchFailed([d EXCEPT !.fault = TRUE, !.ended = "submit"])

\* The answers of GET /searches/{id}: a request error, or a body.
StatusAnswers ==
  {[error |-> TRUE, state |-> "", isComplete |-> FALSE]}
    \cup [error : {FALSE}, state : {"InProgress", "Completed"},
          isComplete : BOOLEAN]

\* The answers of GET /searches/{id}/responses: a request error (or an
\* entry that is no object), a body that is no array, or an array.
ResponsesKinds == {"throw", "malformed", "array"}

\* searchTrack, lines 397-421: the inner catch; the error is thrown again
\* once attempts reached maxAttempts, and the outer catch then drops the id.
pollFailed(d, attempts) ==
  IF attempts >= maxAttempts
  THEN searchFailed([d EXCEPT !.fault = TRUE, !.ended = "error"])
  ELSE [d EXCEPT !.attempts = attempts, !.fault = TRUE]

\* pollAnswered with the responses requested at the last poll although the
\* search was not reported complete.
pollAnswered_eager(d, status, kind, outcome) ==
  LET attempts == d.attempts + 1
      timedOut ==
        onSearchReturn([d EXCEPT !.ended = "timeout"], NoResults, d.searchId)
      asked == [d EXCEPT !.completeSeen = TRUE, !.fetched = TRUE]
      eager == [d EXCEPT !.fetched = TRUE]
  IN  IF status.error THEN pollFailed(d, attempts)
      ELSE IF status.state = "InProgress"
      THEN IF attempts < maxAttempts
           THEN [d EXCEPT !.attempts = attempts] ELSE timedOut
      ELSE IF ~status.isComplete
      THEN IF attempts < maxAttempts
           THEN [d EXCEPT !.attempts = attempts]
           ELSE onSearchReturn([eager EXCEPT !.ended = "timeout"],
                               NoResults, d.searchId)
      ELSE CASE kind = "throw" -> pollFailed(asked, attempts)
             [] kind = "malformed" ->
                  onSearchReturn([asked EXCEPT !.fault = TRUE,
                                               !.ended = "malformed"],
                                 NoResults, d.searchId)
             [] kind = "array" -> onSearchReturn(asked, outcome, d.searchId)

\* searchTrack, lines 277-432: one turn of the while loop (sleep 5000,
\* attempts++, the status request and, when complete, the responses request).
pollAnswered(d, status, kind, outcome) ==
  LET attempts == d.attempts + 1
      timedOut ==
        onSearchReturn([d EXCEPT !.ended = "timeout"], NoResults, d.searchId)
      asked == [d EXCEPT !.completeSeen = TRUE, !.fetched = TRUE]
  IN  IF status.error THEN pollFailed(d, attempts)
      ELSE IF status.state = "InProgress"
      THEN IF attempts < maxAttempts
           THEN [d EXCEPT !.attempts = attempts] ELSE timedOut
      ELSE IF ~status.isComplete
      THEN IF attempts < maxAttempts
           THEN [d EXCEPT !.attempts = attempts] ELSE timedOut
      ELSE CASE kind = "throw" -> pollFailed(asked, attempts)
             [] kind = "malformed" ->
                  onSearchReturn([asked EXCEPT !.fault = TRUE,
                                               !.ended = "malformed"],
                                 NoResults, d.searchId)
             [] kind = "array" -> onSearchReturn(asked, outcome, d.searchId)

\* The answers of POST /transfers/downloads/{username}: 0 is a request error
\* (validateStatus rejects 500 and above), otherwise the HTTP status.
InitiateAnswers == {0, 200, 201, 202, 204, 400, 404}

\* What initiateDownload makes of GET /transfers/downloads after an accepted
\* request (lines 711-723): "list" when it can write the entries to the log
\* (getActiveDownloads answers [] on a request error), "throws" when an
\* entry is null and download.username raises a TypeError.
ListingAnswers == {"list", "throws"}

\* initiateAnswered with the searches cleaned up as soon as the transfer is
\* accepted, before the wait.
initiateAnswered_cleanupFirst(d, status, listing) ==
  IF status \in {200, 201, 204} /\ listing = "list"
  THEN [cleanupAllSearches(d) EXCEPT
          !.pc = "wait", !.elapsed = 0, !.downloadFound = FALSE,
          !.nAccepted = @ + 1, !.fault = FALSE,
          !.completeSeen = FALSE, !.fetched = FALSE,
          !.ended = "none", !.got = FALSE]
  ELSE failAttempt(d, "initiate")

\* initiateAnswered with the wait started whatever initiateDownload returned.
initiateAnswered_ignored(d, status, listing) ==
  IF status \in {200, 201, 204} /\ listing = "list"
  THEN [d EXCEPT !.pc = "wait", !.elapsed = 0, !.downloadFound = FALSE,
                 !.nAccepted = @ + 1, !.fault = FALSE,
                 !.completeSeen = FALSE, !.fetched = FALSE,
                 !.ended = "none", !.got = FALSE]
  ELSE [d EXCEPT !.pc = "wait", !.elapsed = 0, !.downloadFound = FALSE,
                 !.fault = FALSE, !.completeSeen = FALSE, !.fetched = FALSE,
                 !.ended = "none", !.got = FALSE]

\* initiateDownload, lines 690-760, and the start of
\* waitForDownloadCompletion, lines 767-783.
initiateAnswered(d, status, listing) ==
  IF status \in {200, 201, 204} /\ listing = "list"
  THEN [d EXCEPT !.pc = "wait", !.elapsed = 0, !.downloadFound = FALSE,
                 !.nAccepted = @ + 1, !.fault = FALSE,
                 !.completeSeen = FALSE, !.fetched = FALSE,
                 !.ended = "none", !.got = FALSE]
  ELSE failAttempt(d, "initiate")

\* sleepAndCheck with a wait that starts over when maxWait has elapsed.
sleepAndCheck_restart(d, now) ==
  IF now + checkInterval < maxWait
  THEN [d EXCEPT !.elapsed = now + checkInterval]
  ELSE [d EXCEPT !.elapsed = 0]

\* await this.sleep(checkInterval) and the loop condition of line 781.
sleepAndCheck(d, now) ==
  IF now + checkInterval < maxWait
  THEN [d EXCEPT !.elapsed = now + checkInterval]
  ELSE failAttempt([d EXCEPT !.elapsed = now + checkInterval], "timeout")

\* The answers of GET /transfers/downloads: a request error, an empty body,
\* or a list (a body that is one object is a list of one).
TransferKinds == {"throw", "nodata", "list"}

\* transfersAnswered with a transfer in a failure state taken for a finished
\* one.
transfersAnswered_failedAsDone(d, now, kind, scan) ==
  IF kind # "list" THEN sleepAndCheck(d, now)
  ELSE LET found == d.downloadFound \/ scan.found
           d1 == [d EXCEPT !.downloadFound = found,
                           !.sawSuccess = @ \/ scan.ret = "true"]
       IN  IF scan.ret # "none" THEN returnTrue(d1)
           ELSE IF ~found /\ now > 30000 THEN failAttempt(d1, "notStarted")
           ELSE sleepAndCheck(d1, now)

\* waitForDownloadCompletion, lines 781-885: one turn of the while loop.
\* now is Date.now() - startTime when the answer arrived, scan is what the
\* for loop made of the answer.
transfersAnswered(d, now, kind, scan) ==
  IF kind # "list" THEN sleepAndCheck(d, now)
  ELSE LET found == d.downloadFound \/ scan.found
           d1 == [d EXCEPT !.downloadFound = found,
                           !.sawSuccess = @ \/ scan.ret = "true"]
       IN  IF scan.ret = "true" THEN returnTrue(d1)
           ELSE IF scan.ret = "false" THEN failAttempt(d1, "transfer")
           ELSE IF ~found /\ now > 30000 THEN failAttempt(d1, "notStarted")
           ELSE sleepAndCheck(d1, now)

(***************************************************************************)
(* Actions                                                                 *)
(***************************************************************************)

\* The call dl[j] moves to d.
Apply(j, d) ==
  /\ dl' = [dl EXCEPT ![j] = d]
  /\ UNCHANGED <<probe, disk, mgr, run, cfg, scn, syncs, phase, chunks,
                 chunkIndex, successful, failed, past>>

\* What is left of a call once its caller has taken the result.
settled(d) == [NoCall(d.track) EXCEPT !.pc = "settled", !.result = d.result]

\* downloadTracks, lines 398-416: the awaited downloadTrack call returned (or
\* raised) and the callback files the track under successful or failed.
Settled(j) ==
  /\ dl[j].pc = "done"
  /\ dl' = [dl EXCEPT ![j] = settled(dl[j])]
  /\ successful' = IF dl[j].result = "true"
                   THEN Append(successful, dl[j].track) ELSE successful
  /\ failed' = IF dl[j].result # "true"
               THEN Append(failed, dl[j].track) ELSE failed
  /\ past' = [past EXCEPT ![trackKey(dl[j].track)] = dl[j].result]
  /\ UNCHANGED <<probe, disk, mgr, run, cfg, scn, syncs, phase, chunks,
                 chunkIndex>>

\* startCall with a record of the tracks already completed: such a track is
\* answered true at once.
startCall_skipCompleted(track) ==
  IF past[trackKey(track)] = "true"
  THEN [NoCall(track) EXCEPT !.pc = "done", !.result = "true",
                             !.prior = "true"]
  ELSE loopHead([NoCall(track) EXCEPT !.prior = past[trackKey(track)]])

\* startCall with a record of the tracks that failed: such a track is
\* answered false at once.
startCall_skipFailed(track) ==
  IF past[trackKey(track)] = "false"
  THEN [NoCall(track) EXCEPT !.pc = "done", !.result = "false",
                             !.prior = "false"]
  ELSE loopHead([NoCall(track) EXCEPT !.prior = past[trackKey(track)]])

\* downloadTrack(track) is called: lines 115-119.
startCall(track) ==
  loopHead([NoCall(track) EXCEPT !.prior = past[trackKey(track)]])

\* The calls of chunk number i (from 0) are made, the others are kept.
startChunk(calls, positions) ==
  [j \in 1..Len(calls) |->
     IF j \in Range(positions) THEN startCall(calls[j].track) ELSE calls[j]]

\* syncRecommendations hands the missing tracks of the recommendations to
\* downloadTracks, which makes the calls of the first chunk (lines 367-398).
\* getRecommendations returns removeDuplicates(...) of what LastFM sent; every
\* sublist of it can be the missing tracks, and is itself such a list.
StartBatch ==
  /\ phase = "idle"
  /\ syncs < scn.maxSyncs
  /\ \E raw \in SeqsUpTo(scn.tracks, scn.maxLen) \ {<<>>} :
       LET tracks == removeDuplicates(raw)
           positions == chunkArray([j \in 1..Len(tracks) |-> j],
                                   cfg.concurrentDownloads)
       IN  /\ chunks' = positions
           /\ dl' = startChunk([j \in 1..Len(tracks) |-> NoCall(tracks[j])],
                               positions[1])
  /\ chunkIndex' = 0
  /\ successful' = <<>>
  /\ failed' = <<>>
  /\ syncs' = syncs + 1
  /\ phase' = "running"
  /\ UNCHANGED <<probe, disk, mgr, run, cfg, scn, past>>

ChunkSettled == \A j \in Range(chunks[chunkIndex + 1]) : dl[j].pc = "settled"

\* NextChunk with Promise.race in place of Promise.all: the next chunk starts
\* as soon as one call of the chunk settled.
NextChunk_race ==
  /\ phase = "running"
  /\ \E j \in Range(chunks[chunkIndex + 1]) : dl[j].pc = "settled"
  /\ chunkIndex < Len(chunks) - 1
  /\ chunkIndex' = chunkIndex + 1
  /\ dl' = startChunk(dl, chunks[chunkIndex + 2])
  /\ UNCHANGED <<probe, disk, mgr, run, cfg, scn, syncs, phase, chunks,
                 successful, failed, past>>

\* Lines 419-432: Promise.all(promises) settled, sleep(2000), the next chunk.
NextChunk ==
  /\ phase = "running"
  /\ ChunkSettled
  /\ chunkIndex < Len(chunks) - 1
  /\ chunkIndex' = chunkIndex + 1
  /\ dl' = startChunk(dl, chunks[chunkIndex + 2])
  /\ UNCHANGED <<probe, disk, mgr, run, cfg, scn, syncs, phase, chunks,
                 successful, failed, past>>

\* Lines 434-437: the last chunk settled, downloadTracks returns.
ReturnBatch ==
  /\ phase = "running"
  /\ ChunkSettled
  /\ chunkIndex = Len(chunks) - 1
  /\ phase' = "idle"
  /\ chunks' = <<>>
  /\ chunkIndex' = 0
  /\ dl' = <<>>
  /\ successful' = <<>>
  /\ failed' = <<>>
  /\ UNCHANGED <<probe, disk, mgr, run, cfg, scn, syncs, past>>

\* POST /searches of searchTrack is answered.
SubmitAnswered(j) ==
  /\ dl[j].pc = "submit"
  /\ \E answer \in SubmitAnswers : Apply(j, submitAnswered(dl[j], answer))

\* One turn of the poll loop of searchTrack.
PollAnswered(j) ==
  /\ dl[j].pc = "poll"
  /\ \/ \E status \in StatusAnswers, kind \in {"throw", "malformed"} :
          Apply(j, pollAnswered(dl[j], status, kind, NoResults))
     \/ \E outcome \in SearchOutcomes[dl[j].track] :
          Apply(j, pollAnswered(dl[j],
                                [error |-> FALSE, state |-> "Completed",
                                 isComplete |-> TRUE],
                                "array", outcome))

\* POST /transfers/downloads/{username} of initiateDownload is answered.
InitiateAnswered(j) ==
  /\ dl[j].pc = "initiate"
  /\ \E status \in InitiateAnswers, listing \in ListingAnswers :
       Apply(j, initiateAnswered(dl[j], status, listing))

\* The request takes 0 ms or, once, 1 ms more than the sleeps.
Latencies(d) == IF d.elapsed % checkInterval = 0 THEN {0, 1} ELSE {0}

\* One turn of the poll loop of waitForDownloadCompletion.
TransfersAnswered(j) ==
  /\ dl[j].pc = "wait"
  /\ \E late \in Latencies(dl[j]) :
       \/ \E kind \in {"throw", "nodata"} :
            Apply(j, transfersAnswered(dl[j], dl[j].elapsed + late, kind,
                                       [found |-> FALSE, ret |-> "none"]))
       \/ \E scan \in PollOutcomes[dl[j].bestMatch[1]] :
            Apply(j, transfersAnswered(dl[j], dl[j].elapsed + late, "list", scan))

\* The backoff sleep of line 210 ends: the loop condition, the next attempt.
Wake(j) ==
  /\ dl[j].pc = "sleep"
  /\ Apply(j, loopHead(dl[j]))

Next ==
  \/ StartBatch
  \/ NextChunk
  \/ ReturnBatch
  \/ \E j \in 1..Len(dl) : SubmitAnswered(j)
  \/ \E j \in 1..Len(dl) : PollAnswered(j)
  \/ \E j \in 1..Len(dl) : InitiateAnswered(j)
  \/ \E j \in 1..Len(dl) : TransfersAnswered(j)
  \/ \E j \in 1..Len(dl) : Wake(j)
  \/ \E j \in 1..Len(dl) : Settled(j)

\* Config.ts accepts no value below 1 for the three settings; the timeout
\* explored is the shortest one.
MinSetting == 1

\* No RecommendationsManager was constructed; no sync was started.
NoManager == [calls |-> 0]
NoRun == [pc |-> "none"]

\* No function has been called on its own.
NoProbe == [op |-> "none"]

Configs(retries, concurrent) ==
  [maxDownloadRetries : retries, concurrentDownloads : concurrent,
   downloadTimeoutMinutes : {MinSetting}]

InitWith(configs, scenario) ==
  /\ cfg \in configs
  /\ scn = scenario
  /\ syncs = 0
  /\ phase = "idle"
  /\ chunks = <<>>
  /\ chunkIndex = 0
  /\ dl = <<>>
  /\ successful = <<>>
  /\ failed = <<>>
  /\ past = [k \in Keys |-> "none"]
  /\ probe = NoProbe
  /\ disk = <<>>
  /\ mgr = NoManager
  /\ run = NoRun

\* Calls made one after the other, over several syncs.
InitSeq ==
  InitWith(Configs(MinSetting..MaxRetries, {MinSetting}),
           [tracks |-> {TrackA, TrackB}, maxLen |-> MaxSeqBatch,
            maxSyncs |-> MaxSyncs])

\* Calls made side by side, in one sync.
InitBatch ==
  InitWith(Configs({MinSetting}, (MinSetting + 1)..MaxConcurrent),
           [tracks |-> Tracks, maxLen |-> MaxBatch, maxSyncs |-> MinSetting])

Init == InitSeq \/ InitBatch

Spec == Init /\ [][Next]_vars

(***************************************************************************)
(* Functions called on their own                                           *)
(***************************************************************************)

mainVars ==
  <<cfg, scn, syncs, phase, chunks, chunkIndex, dl, successful, failed, past>>

\* No sync is made: the functions are called one at a time on given arguments.
InitPure ==
  InitWith(Configs({MinSetting}, {MinSetting}),
           [tracks |-> {}, maxLen |-> 0, maxSyncs |-> 0])

\* The transfer lists whose files may report a progress.
ProgressLists == SeqsUpTo(DownloadsWith(Progresses), MaxTransfers)

\* What waitForDownloadCompletion writes to the log of the progress of the
\* matching files it passes over (lines 856-868).
RECURSIVE scanLog(_, _)
scanLog(downloads, file) ==
  IF downloads = <<>> THEN <<>>
  ELSE LET download == Head(downloads)
           matches == matchesFile(download, file)
           matchingFile ==
             download.files[CHOOSE i \in 1..Len(download.files) :
                              download.files[i].filename = file.filename]
       IN  IF matches /\ download.state \in {"Completed", "Succeeded", "Cancelled",
                                             "Failed", "TimedOut"}
           THEN <<>>
           ELSE IF matches
           THEN progressOf(matchingFile) \o scanLog(Tail(downloads), file)
           ELSE scanLog(Tail(downloads), file)

\* A downloadTrack call inside waitForDownloadCompletion(file), at the start
\* of a turn of its loop.
Waiting(file, found) ==
  [loopHead(NoCall(TrackA)) EXCEPT
     !.pc = "wait", !.bestMatch = <<file>>, !.hadResults = TRUE,
     !.nInitiate = 1, !.nAccepted = 1, !.downloadFound = found]

\* The times, since the start of the wait, at which a poll is answered.
PollTimes == {0, 30000 + MinSetting}

\* One turn of the loop of waitForDownloadCompletion on a given answer.
ProbePoll ==
  /\ probe = NoProbe
  /\ \E file \in Candidates, l \in ProgressLists, found \in BOOLEAN,
        now \in PollTimes :
       probe' = [op |-> "poll", file |-> file, downloads |-> l,
                 found |-> found, now |-> now,
                 log |-> scanLog(l, file),
                 after |-> transfersAnswered(Waiting(file, found), now, "list",
                                             scanDownloads(l, file, FALSE))]
  /\ UNCHANGED <<mainVars, disk, mgr, run>>

\* A downloadTrack call whose search returned files of which selectBestMatch
\* chose file.
Selected(file) ==
  [loopHead(NoCall(TrackA)) EXCEPT
     !.bestMatch = <<file>>, !.hadResults = TRUE, !.got = TRUE,
     !.completeSeen = TRUE, !.fetched = TRUE, !.ended = "responses"]

\* The files handed to initiateDownload, with and without peer and filename.
InitiateFiles ==
  {[filename |-> n, nameIsString |-> TRUE, bitRate |-> <<>>, size |-> <<>>,
    username |-> u] :
     n \in {FileFlac.filename, <<>>}, u \in Peers}

\* initiateDownload(file) on a given answer of the backend.
ProbeInitiate ==
  /\ probe = NoProbe
  /\ \E file \in InitiateFiles, status \in InitiateAnswers,
        listing \in ListingAnswers :
       LET begun == startInitiate(Selected(file))
           sent == begun.pc = "initiate"
       IN  probe' = [op |-> "initiate", file |-> file, status |-> status,
                     listing |-> listing, sent |-> sent,
                     after |-> IF sent
                               THEN initiateAnswered(begun, status, listing)
                               ELSE begun]
  /\ UNCHANGED <<mainVars, disk, mgr, run>>

\* Tracks whose artist and title are one short word each ("Bo", "Ra"), whose
\* artist alone is ("Bo", "Bar"), whose artist has two words ("Foo Boo"), and
\* whose artist is punctuation only ("!", "Bar"), "" once normalized.
TrackShort == [artist |-> <<"B", "o">>, title |-> <<"R", "a">>]
ProbeTracks ==
  {TrackA, TrackShort,
   [artist |-> <<"!">>, title |-> <<"B", "a", "r">>],
   [artist |-> <<"B", "o">>, title |-> <<"B", "a", "r">>],
   [artist |-> <<"F", "o", "o", " ", "B", "o", "o">>,
    title |-> <<"B", "a", "r">>]}

\* Filenames: "Foo - Bar.flac", "Foo Bar", "Bo Ra", "Bo Ra.flac", "Bo Ra.mp3",
\* "zz Ra.mp3", "Bo Ra.doc", "zzz.mp3", "Foo.mp3", "Bo Bar.mp3".
ProbeNames ==
  {FileFlac.filename,
   <<"F", "o", "o", " ", "B", "a", "r">>,
   <<"B", "o", " ", "R", "a">>,
   <<"B", "o", " ", "R", "a", ".", "f", "l", "a", "c">>,
   <<"B", "o", " ", "R", "a", ".", "m", "p", "3">>,
   <<"z", "z", " ", "R", "a", ".", "m", "p", "3">>,
   <<"B", "o", " ", "R", "a", ".", "d", "o", "c">>,
   <<"z", "z", "z", ".", "m", "p", "3">>,
   <<"F", "o", "o", ".", "m", "p", "3">>,
   <<"B", "o", " ", "B", "a", "r", ".", "m", "p", "3">>}

\* The bitRate and size a file may report (<<>>: the field is absent).
ProbeFiles ==
  [filename : ProbeNames, nameIsString : {TRUE},
   bitRate : {<<>>, <<0>>, <<64>>, <<128>>, <<192>>, <<256>>, <<320>>},
   size : {<<>>, <<0>>, <<MiB - 1>>, <<MiB>>}]

\* calculateMatchScore(file, track) on given arguments.
ProbeScore ==
  /\ probe = NoProbe
  /\ \E file \in ProbeFiles, track \in ProbeTracks :
       probe' = [op |-> "score", file |-> file, track |-> track,
                 score |-> calculateMatchScore(file, track)]
  /\ UNCHANGED <<mainVars, disk, mgr, run>>

\* isAcceptableQuality(file) on a given file.
ProbeQuality ==
  /\ probe = NoProbe
  /\ \E file \in ProbeFiles :
       probe' = [op |-> "quality", file |-> file,
                 ok |-> isAcceptableQuality(file)]
  /\ UNCHANGED <<mainVars, disk, mgr, run>>

\* The files of the result lists handed to selectBestMatch.
SelectFiles ==
  {[filename |-> f[1], nameIsString |-> TRUE, bitRate |-> f[2],
    size |-> f[3], username |-> "alice"] :
     f \in {<<<<"B", "o", " ", "R", "a", ".", "f", "l", "a", "c">>, <<320>>, <<8 * MiB>>>>,
            <<<<"B", "o", " ", "R", "a", ".", "m", "p", "3">>, <<>>, <<>>>>,
            <<<<"z", "z", " ", "R", "a", ".", "m", "p", "3">>, <<>>, <<>>>>,
            <<<<"B", "o", " ", "R", "a", ".", "f", "l", "a", "c">>, <<64>>, <<>>>>,
            <<<<"z", "z", "z", ".", "m", "p", "3">>, <<320>>, <<3 * MiB>>>>,
            <<<<"B", "o", " ", "R", "a", ".", "d", "o", "c">>, <<>>, <<>>>>,
            <<<<"F", "o", "o", ".", "m", "p", "3">>, <<0>>, <<0>>>>}}

\* selectBestMatch(searchResults, track) on given arguments.
ProbeSelect ==
  /\ probe = NoProbe
  /\ \E searchResults \in SeqsUpTo(SelectFiles, MaxResponses),
        track \in {TrackA, TrackShort} :
       probe' = [op |-> "select", searchResults |-> searchResults,
                 track |-> track,
                 best |-> selectBestMatch(searchResults, track)]
  /\ UNCHANGED <<mainVars, disk, mgr, run>>

(***************************************************************************)
(* Rotation of the current recommendations (RecommendationsManager)        *)
(***************************************************************************)

\* Dates are counted in days, the unit of recommendationsMaxAgeDays: the
\* factor 24 * 60 * 60 * 1000 of the code is the length of one unit.

\* sorted.sort((a, b) => a.modified.getTime() - b.modified.getTime()): the
\* sort is stable, files of one date keep their order.
RECURSIVE insertByModified(_, _)
insertByModified(sorted, f) ==
  IF sorted = <<>> THEN <<f>>
  ELSE IF Head(sorted).modified <= f.modified
       THEN <<Head(sorted)>> \o insertByModified(Tail(sorted), f)
       ELSE <<f>> \o sorted

\* sortByModified that leaves the files in the order of the listing.
sortByModified_unsorted(files) == files

RECURSIVE sortByModified(_)
sortByModified(files) ==
  IF files = <<>> THEN <<>>
  ELSE insertByModified(sortByModified(SubSeq(files, 1, Len(files) - 1)),
                        files[Len(files)])

\* The shuffle of the "random" case: for i from the last index down to 1
\* (0-based), swap sorted[i] and sorted[j], where j = picks[i] stands for
\* Math.floor(Math.random() * (i + 1)), a number of 0..i.
RECURSIVE shuffle(_, _, _)
shuffle(sorted, i, picks) ==
  IF i <= 0 THEN sorted
  ELSE LET j == picks[i]
       IN  shuffle([sorted EXCEPT ![i + 1] = sorted[j + 1],
                                  ![j + 1] = sorted[i + 1]],
                   i - 1, picks)

\* selectFilesByStrategy that keeps the end of the sorted list, not its start.
selectFilesByStrategy_lastOnes(files, count, rotationStrategy, picks) ==
  IF count <= 0 \/ Len(files) = 0 THEN <<>>
  ELSE
    LET sorted ==
          IF rotationStrategy = "random"
          THEN shuffle(files, Len(files) - 1, picks)
          ELSE sortByModified(files)
        first == IF count < Len(sorted) THEN Len(sorted) - count + 1 ELSE 1
    IN  SubSeq(sorted, first, Len(sorted))

selectFilesByStrategy(files, count, rotationStrategy, picks) ==
  IF count <= 0 \/ Len(files) = 0 THEN <<>>
  ELSE
    LET sorted ==
          IF rotationStrategy = "random"
          THEN shuffle(files, Len(files) - 1, picks)
          ELSE sortByModified(files)
    IN  SubSeq(sorted, 1, IF count < Len(sorted) THEN count ELSE Len(sorted))

\* selectFilesForRotation that selects for the count cap only.
selectFilesForRotation_countOnly(files, config, now, picks) ==
  selectFilesByStrategy(
    files,
    IF Len(files) > config.recommendationsMaxTracks
    THEN Len(files) - config.recommendationsMaxTracks ELSE 0,
    config.rotationStrategy, picks)

\* selectFilesForRotation that selects by age only.
selectFilesForRotation_ageOnly(files, config, now, picks) ==
  SelectSeq(files, LAMBDA file :
              file.modified < now - config.recommendationsMaxAgeDays)

selectFilesForRotation(files, config, now, picks) ==
  LET maxTracks == config.recommendationsMaxTracks
      maxAge == now - config.recommendationsMaxAgeDays
      oldFiles == SelectSeq(files, LAMBDA file : file.modified < maxAge)
      excessFiles ==
        IF Len(files) > maxTracks THEN Len(files) - maxTracks ELSE 0
  IN  IF excessFiles > Len(oldFiles)
      THEN LET remainingFiles ==
                 SelectSeq(files, LAMBDA file : file \notin Range(oldFiles))
           IN  oldFiles \o selectFilesByStrategy(remainingFiles,
                                                 excessFiles - Len(oldFiles),
                                                 config.rotationStrategy,
                                                 picks)
      ELSE oldFiles

\* Date.now() of the probes.
RotationNow == 10

\* The inventories of getCurrentRecommendationFiles: the file at position i
\* has the path i, so no two entries are the same file; it was modified on
\* day 2, 5 or 8.
Inventories ==
  UNION {{[i \in 1..k |-> [path |-> i, modified |-> m[i]]] :
            m \in [1..k -> {2, 5, 8}]} : k \in 0..MaxFiles}

\* The rotation settings: a count cap from 0 and an age cap in days.
RotationConfigs ==
  [recommendationsMaxTracks : 0..MaxFiles,
   recommendationsMaxAgeDays : {1, 5, 7},
   rotationStrategy : {"oldest_first", "random", "least_played", "other"}]

\* The outcomes of Math.random in one shuffle; only "random" draws any.
Picks(rotationStrategy) ==
  IF rotationStrategy = "random"
  THEN {p \in [1..(MaxFiles - 1) -> 0..(MaxFiles - 1)] :
          \A i \in 1..(MaxFiles - 1) : p[i] <= i}
  ELSE {[i \in 1..(MaxFiles - 1) |-> 0]}

\* selectFilesForRotation(files) under given settings.
ProbeRotation ==
  /\ probe = NoProbe
  /\ \E files \in Inventories, config \in RotationConfigs :
       \E picks \in Picks(config.rotationStrategy) :
          probe' = [op |-> "rotation", files |-> files, config |-> config,
                    picks |-> picks,
                    filesToRotate |->
                      selectFilesForRotation(files, config, RotationNow,
                                             picks)]
  /\ UNCHANGED <<mainVars, disk, mgr, run>>

(***************************************************************************)
(* Sidecar paths (RecommendationsManager)                                  *)
(***************************************************************************)

\* The index of the last c in str, 0 when there is none.
lastIndexOf(str, c) ==
  IF \E i \in 1..Len(str) : str[i] = c
  THEN CHOOSE i \in 1..Len(str) :
         str[i] = c /\ \A k \in (i + 1)..Len(str) : str[k] # c
  ELSE 0

\* path.basename(path, suffix) on an absolute path with a file name: the
\* suffix is cut off as it is given, and only from a longer name that ends
\* with it.
basename(path, suffix) ==
  LET base == SubSeq(path, lastIndexOf(path, "/") + 1, Len(path))
  IN  IF suffix = path /\ suffix # <<>> THEN <<>>
      ELSE IF suffix # <<>> /\ base # suffix /\ endsWith(base, suffix)
      THEN SubSeq(base, 1, Len(base) - Len(suffix))
      ELSE base

\* str.split(".").pop(): what follows the last "." (all of str without one).
popExtension(str) == SubSeq(str, lastIndexOf(str, ".") + 1, Len(str))

\* ".metadata.json"
MetadataSuffix == <<".", "m", "e", "t", "a", "d", "a", "t", "a", ".", "j", "s", "o", "n">>

getMetadataPath(filePath) ==
  LET dir == SubSeq(filePath, 1, lastIndexOf(filePath, "/") - 1)
      name == basename(filePath, popExtension(filePath))
  IN  dir \o <<"/">> \o name \o MetadataSuffix

\* The paths "/c/a.mp3", "/c/a.flac", "/c/b.mp3", "/a/a.b.mp3".
AudioPaths ==
  {<<"/", "c", "/", "a", ".", "m", "p", "3">>,
   <<"/", "c", "/", "a", ".", "f", "l", "a", "c">>,
   <<"/", "c", "/", "b", ".", "m", "p", "3">>,
   <<"/", "a", "/", "a", ".", "b", ".", "m", "p", "3">>}

\* getMetadataPath(filePath) on a given path.
ProbeMetadataPath ==
  /\ probe = NoProbe
  /\ \E filePath \in AudioPaths :
       probe' = [op |-> "metadata", filePath |-> filePath,
                 metadataPath |-> getMetadataPath(filePath)]
  /\ UNCHANGED <<mainVars, disk, mgr, run>>

\* The first turn of the loop of waitForDownloadCompletion(file) after an
\* accepted initiate: the backend lists the transfers it held before the
\* request, whatever they are, and the transfer just requested, queued or in
\* progress, before or after them.
ProbeStale ==
  /\ probe = NoProbe
  /\ \E file \in Candidates, before \in TransferLists,
        state \in {"Queued", "InProgress"}, first \in BOOLEAN :
       LET own == [username |-> file.username, state |-> state,
                   files |-> <<[filename |-> file.filename,
                                bytesTransferred |-> <<>>, size |-> <<>>]>>]
           downloads == IF first THEN <<own>> \o before
                        ELSE Append(before, own)
       IN  probe' = [op |-> "stale", file |-> file, before |-> before,
                     own |-> own, downloads |-> downloads,
                     after |-> transfersAnswered(
                                 Waiting(file, FALSE), 0, "list",
                                 scanDownloads(downloads, file, FALSE))]
  /\ UNCHANGED <<mainVars, disk, mgr, run>>

NextPure ==
  \/ ProbePoll
  \/ ProbeInitiate
  \/ ProbeScore
  \/ ProbeQuality
  \/ ProbeSelect
  \/ ProbeRotation
  \/ ProbeMetadataPath
  \/ ProbeStale

PureSpec == InitPure /\ [][NextPure]_vars

\* Every backend request is answered or fails and every sleep ends: a call
\* that can take a step eventually takes one.
CallStep(j) ==
  /\ j <= Len(dl)
  /\ \/ SubmitAnswered(j)
     \/ PollAnswered(j)
     \/ InitiateAnswered(j)
     \/ TransfersAnswered(j)
     \/ Wake(j)

\* Two calls side by side, in one sync.
InitPair ==
  InitWith(Configs({MinSetting}, {MinSetting + 1}),
           [tracks |-> {TrackA, TrackB}, maxLen |-> MinSetting + 1,
            maxSyncs |-> MinSetting])

InitLive == InitSeq \/ InitPair

LiveSpec ==
  /\ InitLive
  /\ [][Next]_vars
  /\ \A j \in 1..MaxBatch : WF_vars(CallStep(j))

(***************************************************************************)
(* Rotation and archive (RecommendationsManager)                           *)
(***************************************************************************)

\* The disk is the sequence of its files [path, modified, size], the files of
\* a directory in readdir order. A call of fs fails on the <<call, path>>
\* pairs of faults, and where the file is missing.

\* fs.unlink(path) that succeeded.
unlink(d, path) == SelectSeq(d, LAMBDA e : e.path # path)

\* fs.rename(from, to) that succeeded: a file at the new path is replaced.
rename(d, from, to) ==
  LET moved == CHOOSE e \in Range(d) : e.path = from
  IN  Append(SelectSeq(d, LAMBDA e : e.path \notin {from, to}),
             [moved EXCEPT !.path = to])

getFileFormat(fileName) ==
  LET extension == popExtension(toLowerCase(fileName))
  IN  IF extension \in AudioExts \cup {<<"w", "m", "a">>}
      THEN <<extension>> ELSE <<>>

\* readdir, then stat on every file that is no sidecar: one failure and the
\* catch returns [].
getFilesInDirectory(d, directory, faults) ==
  LET fileNames ==
        SelectSeq(d, LAMBDA e :
                    /\ SubSeq(e.path, 1, lastIndexOf(e.path, "/") - 1)
                         = directory
                    /\ ~endsWith(e.path, MetadataSuffix))
      audio ==
        SelectSeq(fileNames, LAMBDA e :
                    getFileFormat(basename(e.path, <<>>)) # <<>>)
  IN  IF \/ <<"readdir", directory>> \in faults
         \/ \E i \in 1..Len(fileNames) :
               <<"stat", fileNames[i].path>> \in faults
      THEN <<>>
      ELSE [i \in 1..Len(audio) |->
              [path |-> audio[i].path,
               name |-> basename(audio[i].path, <<>>),
               size |-> audio[i].size,
               modified |-> audio[i].modified,
               format |-> getFileFormat(basename(audio[i].path, <<>>))[1]]]

\* The loop of lines 145-169 from the file at the head of files on: st is
\* the disk and rotatedCount.
RECURSIVE moveToArchive(_, _, _, _)
moveToArchive(files, st, config, faults) ==
  IF files = <<>> THEN st
  ELSE
    LET file == Head(files)
        archivePath == config.recommendationsArchivePath \o <<"/">> \o file.name
        metadataPath == getMetadataPath(file.path)
        archiveMetadataPath == getMetadataPath(archivePath)
        renamed == rename(st.disk, file.path, archivePath)
    IN  IF \/ <<"rename", file.path>> \in faults
           \/ \A e \in Range(st.disk) : e.path # file.path
        THEN moveToArchive(Tail(files), st, config, faults)
        ELSE moveToArchive(
               Tail(files),
               [disk |-> IF /\ <<"rename", metadataPath>> \notin faults
                            /\ \E e \in Range(renamed) : e.path = metadataPath
                         THEN rename(renamed, metadataPath, archiveMetadataPath)
                         ELSE renamed,
                count |-> st.count + 1],
               config, faults)

\* The loops of lines 174-192, 222-243 and 305-315: unlink the file, then
\* its sidecar whatever comes of that; st is the disk and deletedCount.
RECURSIVE unlinkAll(_, _, _)
unlinkAll(files, st, faults) ==
  IF files = <<>> THEN st
  ELSE
    LET file == Head(files)
        metadataPath == getMetadataPath(file.path)
        unlinked == unlink(st.disk, file.path)
    IN  IF \/ <<"unlink", file.path>> \in faults
           \/ \A e \in Range(st.disk) : e.path # file.path
        THEN unlinkAll(Tail(files), st, faults)
        ELSE unlinkAll(
               Tail(files),
               [disk |-> IF <<"unlink", metadataPath>> \in faults
                         THEN unlinked ELSE unlink(unlinked, metadataPath),
                count |-> st.count + 1],
               faults)

cleanupArchive(d, config, faults) ==
  IF ~config.enableArchive THEN [disk |-> d, count |-> 0]
  ELSE
    LET archiveFiles ==
          getFilesInDirectory(d, config.recommendationsArchivePath, faults)
        filesToDelete == Len(archiveFiles) - config.archiveMaxTracks
    IN  IF Len(archiveFiles) <= config.archiveMaxTracks
        THEN [disk |-> d, count |-> 0]
        ELSE unlinkAll(SubSeq(sortByModified(archiveFiles), 1, filesToDelete),
                       [disk |-> d, count |-> 0], faults)

\* What a call of the manager leaves: the disk, whether it raised, its
\* counts, the files it selected and whether it made the archive directory.
Outcome(d, raised, rotated, deleted, selected, mkdir) ==
  [disk |-> d, raised |-> raised, rotated |-> rotated, deleted |-> deleted,
   selected |-> selected, mkdir |-> mkdir]

\* Lines 139-199 of rotateOldTracks: the files selected go to the archive,
\* which is then cleaned up, or are deleted.
rotateFiles(d, config, faults, filesToRotate, enableArchive) ==
  LET moved == moveToArchive(filesToRotate, [disk |-> d, count |-> 0],
                             config, faults)
      cleaned == cleanupArchive(moved.disk, config, faults)
      removed == unlinkAll(filesToRotate, [disk |-> d, count |-> 0], faults)
  IN  IF enableArchive
      THEN IF <<"mkdir", config.recommendationsArchivePath>> \in faults
           THEN Outcome(d, TRUE, 0, 0, filesToRotate, FALSE)
           ELSE Outcome(cleaned.disk, FALSE, moved.count, cleaned.count,
                        filesToRotate, TRUE)
      ELSE Outcome(removed.disk, FALSE, 0, removed.count, filesToRotate,
                   FALSE)

\* rotateOldTracks that rotates the first of the selected files only.
rotateOldTracks_firstOnly(d, config, now, picks, faults) ==
  LET currentFiles ==
        getFilesInDirectory(d, config.recommendationsCurrentPath, faults)
      filesToRotate == selectFilesForRotation(currentFiles, config, now, picks)
      out == rotateFiles(d, config, faults, SubSeq(filesToRotate, 1, 1),
                         config.enableArchive)
  IN  IF Len(filesToRotate) = 0
      THEN Outcome(d, FALSE, 0, 0, filesToRotate, FALSE)
      ELSE [out EXCEPT !.selected = filesToRotate]

\* rotateOldTracks that archives whatever enableArchive says.
rotateOldTracks_archiveAlways(d, config, now, picks, faults) ==
  LET currentFiles ==
        getFilesInDirectory(d, config.recommendationsCurrentPath, faults)
      filesToRotate == selectFilesForRotation(currentFiles, config, now, picks)
  IN  IF Len(filesToRotate) = 0
      THEN Outcome(d, FALSE, 0, 0, filesToRotate, FALSE)
      ELSE rotateFiles(d, [config EXCEPT !.enableArchive = TRUE], faults,
                       filesToRotate, TRUE)

rotateOldTracks(d, config, now, picks, faults) ==
  LET currentFiles ==
        getFilesInDirectory(d, config.recommendationsCurrentPath, faults)
      filesToRotate == selectFilesForRotation(currentFiles, config, now, picks)
  IN  IF Len(filesToRotate) = 0
      THEN Outcome(d, FALSE, 0, 0, filesToRotate, FALSE)
      ELSE rotateFiles(d, config, faults, filesToRotate, config.enableArchive)

\* The loop of lines 445-463: a file below 1 KB is unlinked.
cleanupInvalidFiles(d, config, faults) ==
  LET currentFiles ==
        getFilesInDirectory(d, config.recommendationsCurrentPath, faults)
      small == {currentFiles[i].path : i \in
                  {k \in 1..Len(currentFiles) : currentFiles[k].size < 1024}}
  IN  SelectSeq(d, LAMBDA e :
                  ~(e.path \in small /\ <<"unlink", e.path>> \notin faults))

\* The calls of the manager one run makes at most.
MaxCalls == 1

\* The calls of rotateOldTracks that follow one another at most, the later
\* ones after calls in which no fs call failed.
MaxRotations == 2

\* The audio files of the folders: "a.mp3", "b.mp3", "a.flac", "b.flac" in
\* current, "a.mp3" and "o.mp3" in the archive.
CurrentNames ==
  <<<<"a", ".", "m", "p", "3">>,
    <<"b", ".", "m", "p", "3">>,
    <<"a", ".", "f", "l", "a", "c">>,
    <<"b", ".", "f", "l", "a", "c">>>>
ArchiveNames ==
  <<<<"a", ".", "m", "p", "3">>,
    <<"o", ".", "m", "p", "3">>>>

\* The files of a directory: c[i] is <<>> when the file names[i] is absent,
\* and else holds its date, its size and whether it has the sidecar that
\* createMetadataFile writes; the sidecars come after the audio files.
entriesOf(directory, names, c) ==
  LET pathOf(i) == directory \o <<"/">> \o names[i]
      present == SelectSeq([i \in 1..Len(c) |-> i], LAMBDA i : c[i] # <<>>)
      withSidecar ==
        SelectSeq(present, LAMBDA i :
                    /\ c[i][1].sidecar
                    /\ \A j \in 1..(i - 1) :
                         c[j] # <<>> /\ c[j][1].sidecar =>
                           getMetadataPath(pathOf(j)) # getMetadataPath(pathOf(i)))
  IN  [k \in 1..Len(present) |->
         [path |-> pathOf(present[k]),
          modified |-> c[present[k]][1].modified,
          size |-> c[present[k]][1].size]]
      \o [k \in 1..Len(withSidecar) |->
            [path |-> getMetadataPath(pathOf(withSidecar[k])),
             modified |-> c[withSidecar[k]][1].modified,
             size |-> 128]]

FileAttrs(modified, size, sidecar) ==
  <<[modified |-> modified, size |-> size, sidecar |-> sidecar]>>

\* The settings of the manager.
ManagerConfigs ==
  {c \in [recommendationsCurrentPath : {<<"/", "c">>},
          recommendationsArchivePath : {<<"/", "a">>},
          recommendationsMaxTracks : {1, MaxFiles - 1},
          recommendationsMaxAgeDays : {5},
          rotationStrategy : {"oldest_first", "random"},
          enableArchive : BOOLEAN,
          archiveMaxTracks : {1}] : TRUE}

\* The folders before the first call: up to MaxFiles files in current, old
\* (day 2) or not (days 7 and 8, those of day 8 below 1 KB), and up to two
\* files in the archive.
InitRotation ==
  /\ cfg \in Configs({MinSetting}, {MinSetting})
  /\ scn = [tracks |-> {}, maxLen |-> 0, maxSyncs |-> 0]
  /\ syncs = 0
  /\ phase = "idle"
  /\ chunks = <<>>
  /\ chunkIndex = 0
  /\ dl = <<>>
  /\ successful = <<>>
  /\ failed = <<>>
  /\ past = [k \in Keys |-> "none"]
  /\ probe = NoProbe
  /\ run = NoRun
  /\ \E config \in ManagerConfigs,
        c \in [1..MaxFiles ->
                 {<<>>, FileAttrs(2, 2048, TRUE), FileAttrs(7, 2048, FALSE),
                  FileAttrs(8, 512, TRUE)}],
        a \in [1..2 -> {<<>>, FileAttrs(1, 2048, TRUE),
                        FileAttrs(4, 2048, TRUE), FileAttrs(9, 2048, FALSE)}] :
       /\ a[1] \in {<<>>, FileAttrs(4, 2048, TRUE)}
       /\ a[2] # FileAttrs(4, 2048, TRUE)
       /\ disk = entriesOf(config.recommendationsCurrentPath, CurrentNames, c)
                   \o entriesOf(config.recommendationsArchivePath,
                                ArchiveNames, a)
       /\ mgr = [config |-> config, calls |-> 0, call |-> [op |-> "none"]]

\* The fs calls that fail during one call of the manager: none, or one of
\* the calls it can make on a file of one of the directories (no stat on a
\* sidecar, no rename of a file of the archive).
FaultSets(calls, directories) ==
  {{}} \cup
  {{<<p[1], p[2].path>>} :
     p \in {q \in calls \X Range(disk) :
              LET directory ==
                    SubSeq(q[2].path, 1, lastIndexOf(q[2].path, "/") - 1)
              IN  /\ directory \in directories
                  /\ q[1] = "stat" => ~endsWith(q[2].path, MetadataSuffix)
                  /\ q[1] = "rename" =>
                       directory = mgr.config.recommendationsCurrentPath}}

\* The record of a call that was made.
Called(op, faults, out) ==
  [mgr EXCEPT !.calls = @ + 1,
              !.call = [op |-> op, previous |-> mgr.call, before |-> disk,
                        faults |-> faults,
                        raised |-> out.raised, rotated |-> out.rotated,
                        deleted |-> out.deleted, selected |-> out.selected,
                        mkdir |-> out.mkdir]]

\* rotateOldTracks(), by itself or right after a call of it
Rotate ==
  /\ \/ mgr.calls < MaxCalls
     \/ /\ mgr.calls < MaxRotations
        /\ mgr.call.op = "rotateOldTracks"
        /\ mgr.call.faults = {}
  /\ \E faults \in
          FaultSets({"stat", "rename", "unlink"},
                    {mgr.config.recommendationsCurrentPath,
                     mgr.config.recommendationsArchivePath})
            \cup {{<<"mkdir", mgr.config.recommendationsArchivePath>>}},
        picks \in Picks(mgr.config.rotationStrategy) :
       LET out == rotateOldTracks(disk, mgr.config, RotationNow, picks, faults)
       IN  /\ disk' = out.disk
           /\ mgr' = Called("rotateOldTracks", faults, out)
  /\ UNCHANGED <<mainVars, probe, run>>

\* cleanupArchive()
CleanupArchive ==
  /\ mgr.calls < MaxCalls
  /\ \E faults \in FaultSets({"stat", "unlink"},
                              {mgr.config.recommendationsArchivePath}) :
       LET cleaned == cleanupArchive(disk, mgr.config, faults)
       IN  /\ disk' = cleaned.disk
           /\ mgr' = Called("cleanupArchive", faults,
                            Outcome(cleaned.disk, FALSE, 0, cleaned.count,
                                    <<>>, FALSE))
  /\ UNCHANGED <<mainVars, probe, run>>

\* cleanupInvalidFiles(), the last step of the startup cleanup
CleanupInvalidFiles ==
  /\ mgr.calls < MaxCalls
  /\ \E faults \in FaultSets({"stat", "unlink"},
                              {mgr.config.recommendationsCurrentPath}) :
       LET cleaned == cleanupInvalidFiles(disk, mgr.config, faults)
       IN  /\ disk' = cleaned
           /\ mgr' = Called("cleanupInvalidFiles", faults,
                            Outcome(cleaned, FALSE, 0, 0, <<>>, FALSE))
  /\ UNCHANGED <<mainVars, probe, run>>

NextRotation ==
  \/ Rotate
  \/ CleanupArchive
  \/ CleanupInvalidFiles

RotationSpec == InitRotation /\ [][NextRotation]_vars

(***************************************************************************)
(* syncRecommendations: one call, with the answers of its collaborators    *)
(***************************************************************************)

\* The recommendations Last.fm answers at most.
MaxRecommendations == 2

\* What the collaborators answer during one call: the number of
\* recommendations, how many of them are already available, how many of the
\* missing ones downloadTracks gets (the others fail, one error each), whether
\* rotateOldTracks, the Beets import and the playlist update raise, what the
\* import returns, and the addedCount of the playlist update.
SyncAnswers ==
  {a \in [recommendations : 0..MaxRecommendations,
          existing : 0..MaxRecommendations,
          dryRun : BOOLEAN,
          rotation : {"ok", "raise"},
          successful : 0..MaxRecommendations,
          import : {"files", "none", "raise"},
          playlist : {"ok", "raise"},
          addedCount : 0..MaxRecommendations] :
     /\ a.existing <= a.recommendations
     /\ a.successful <= a.recommendations - a.existing
     /\ a.addedCount \in {0, a.recommendations}}

\* Where a call stands: its result so far, the collaborators it has called,
\* and whether an error is on its way to the caller.
SyncState(result, calls, raised) ==
  [result |-> result, calls |-> calls, raised |-> raised]

\* processNewDownloads(): it logs and rethrows what the import raises
processNewDownloads(a) == a.import = "raise"

\* Step 5 that lets the failure of the import go to the caller.
beetsStep_rethrow(a, st) ==
  IF st.result.newDownloads > 0
    THEN SyncState(st.result, Append(st.calls, "importToRecommendations"),
                   processNewDownloads(a))
    ELSE st

\* Step 5: the Beets import when there were new downloads; its failure is
\* logged and pushed to the errors, and the call goes on.
beetsStep(a, st) ==
  IF st.result.newDownloads > 0
    THEN SyncState(
           IF processNewDownloads(a)
             THEN [st.result EXCEPT
                     !.errors = Append(@, "Beets processing failed")]
             ELSE st.result,
           Append(st.calls, "importToRecommendations"), FALSE)
    ELSE st

\* syncRecommendations(limit): steps 1 to 6; the outer catch pushes the
\* message of what was raised and rethrows it.
syncRecommendations(a) ==
  LET missing == a.recommendations - a.existing
      EmptyResult ==
        [totalRecommendations |-> 0, alreadyInLibrary |-> 0,
         newDownloads |-> 0, failedDownloads |-> 0, addedToPlaylist |-> 0,
         errors |-> <<>>]
      fetched ==
        SyncState([EmptyResult EXCEPT
                     !.totalRecommendations = a.recommendations],
                  <<"getRecommendations">>, FALSE)
      categorized ==
        SyncState([fetched.result EXCEPT !.alreadyInLibrary = a.existing],
                  Append(fetched.calls, "categorizeTracksByAvailability"),
                  FALSE)
      rotated ==
        SyncState(categorized.result,
                  Append(categorized.calls, "rotateOldTracks"),
                  a.rotation = "raise")
      downloaded ==
        IF missing > 0
          THEN SyncState(
                 [rotated.result EXCEPT
                    !.newDownloads = a.successful,
                    !.failedDownloads = missing - a.successful,
                    !.errors = @ \o [k \in 1..(missing - a.successful) |->
                                       "download failed"]],
                 Append(rotated.calls, "downloadTracks"), FALSE)
          ELSE rotated
      processed == beetsStep(a, downloaded)
      playlistStep(st) ==
        IF a.playlist = "raise"
          THEN SyncState(st.result, Append(st.calls, "updatePlaylist"), TRUE)
          ELSE SyncState([st.result EXCEPT !.addedToPlaylist = a.addedCount],
                         Append(st.calls, "updatePlaylist"), FALSE)
      caught(st) ==
        SyncState([st.result EXCEPT !.errors = Append(@, "sync failed")],
                  st.calls, TRUE)
  IN  IF a.recommendations = 0 THEN fetched
      ELSE IF a.dryRun THEN categorized
      ELSE IF rotated.raised THEN caught(rotated)
      ELSE IF processed.raised THEN caught(processed)
      ELSE LET updated == playlistStep(processed)
           IN  IF updated.raised THEN caught(updated) ELSE updated

\* Before the call: the answers the collaborators will give.
InitSync ==
  /\ cfg \in Configs({MinSetting}, {MinSetting})
  /\ scn = [tracks |-> {}, maxLen |-> 0, maxSyncs |-> 0]
  /\ syncs = 0
  /\ phase = "idle"
  /\ chunks = <<>>
  /\ chunkIndex = 0
  /\ dl = <<>>
  /\ successful = <<>>
  /\ failed = <<>>
  /\ past = [k \in Keys |-> "none"]
  /\ probe = NoProbe
  /\ disk = <<>>
  /\ mgr = NoManager
  /\ \E a \in SyncAnswers : run = [pc |-> "ready", answers |-> a]

\* One call of syncRecommendations, from its start to its return or raise.
Sync ==
  /\ run.pc = "ready"
  /\ run' = [pc |-> "done", answers |-> run.answers,
             out |-> syncRecommendations(run.answers)]
  /\ UNCHANGED <<mainVars, probe, disk, mgr>>

SyncSpec == InitSync /\ [][Sync]_vars

(***************************************************************************)
(* main: the scheduled job and the startup sync                            *)
(***************************************************************************)

\* The syncRecommendations calls one process makes at most.
MaxRuns == 3

\* main() up to its first await after cron.schedule (lines 27-57): the job
\* is scheduled, and the startup sync has been called and stands at its
\* first await, unless RUN_ON_STARTUP or NODE_ENV says otherwise.  syncs[i]
\* is a call of syncRecommendations: who made it and the collaborator it
\* awaits.
InitCron ==
  /\ cfg \in Configs({MinSetting}, {MinSetting})
  /\ scn = [tracks |-> {}, maxLen |-> 0, maxSyncs |-> 0]
  /\ syncs = 0
  /\ phase = "idle"
  /\ chunks = <<>>
  /\ chunkIndex = 0
  /\ dl = <<>>
  /\ successful = <<>>
  /\ failed = <<>>
  /\ past = [k \in Keys |-> "none"]
  /\ probe = NoProbe
  /\ disk = <<>>
  /\ mgr = NoManager
  /\ \E shouldRunOnStartup \in BOOLEAN :
       run = [pc |-> "main",
              syncs |-> IF shouldRunOnStartup
                        THEN <<[by |-> "startup", at |-> "getRecommendations"]>>
                        ELSE <<>>]

\* The schedule fires: the callback of lines 29-42 calls syncRecommendations,
\* whatever the calls made before are doing.
Tick ==
  /\ run.pc = "main"
  /\ Len(run.syncs) < MaxRuns
  /\ run' = [run EXCEPT !.syncs =
               Append(@, [by |-> "cron", at |-> "getRecommendations"])]
  /\ UNCHANGED <<mainVars, probe, disk, mgr>>

\* The collaborator a call of syncRecommendations awaits answers: the call
\* goes on to its next await (steps 1 to 6 of part_000 135-220), or returns
\* or raises to its caller, which logs the outcome.
SyncStep ==
  /\ run.pc = "main"
  /\ \E i \in 1..Len(run.syncs) :
       /\ run.syncs[i].at # "returned"
       /\ \E next \in {"returned"} \cup
             (CASE run.syncs[i].at = "getRecommendations" ->
                     {"categorizeTracksByAvailability"}
                [] run.syncs[i].at = "categorizeTracksByAvailability" ->
                     {"rotateOldTracks"}
                [] run.syncs[i].at = "rotateOldTracks" ->
                     {"downloadTracks", "updatePlaylist"}
                [] run.syncs[i].at = "downloadTracks" ->
                     {"processNewDownloads", "updatePlaylist"}
                [] run.syncs[i].at = "processNewDownloads" ->
                     {"updatePlaylist"}
                [] OTHER -> {}) :
            run' = [run EXCEPT !.syncs[i].at = next]
  /\ UNCHANGED <<mainVars, probe, disk, mgr>>

NextCron ==
  \/ Tick
  \/ SyncStep

CronSpec == InitCron /\ [][NextCron]_vars

(***************************************************************************)
(* Properties                                                              *)
(***************************************************************************)

Calls == 1..Len(dl)

\* The call is between its start and its return.
InFlight(d) == d.pc \in {"submit", "poll", "initiate", "wait", "sleep"}

\* The call is inside an attempt (not in the backoff sleep).
InAttempt(d) == d.pc \in {"submit", "poll", "initiate", "wait"}

Returned(d) == d.pc = "done"

\* C1: a call none of whose searches yielded a result never initiates a
\* transfer and returns false after exactly maxDownloadRetries searches.
C1_NoResultsExhaustsBudget ==
  \A j \in Calls :
    ~dl[j].hadResults =>
      /\ dl[j].nInitiate = 0
      /\ dl[j].nSearch <= cfg.maxDownloadRetries
      /\ Returned(dl[j]) =>
           /\ dl[j].result = "false"
           /\ dl[j].nSearch = cfg.maxDownloadRetries

C1_Witness ==
  \E j \in Calls :
    /\ Returned(dl[j])
    /\ ~dl[j].hadResults
    /\ cfg.maxDownloadRetries = 2
    /\ dl[j].nSearch = 2

\* C2: a call returns true exactly when one of its attempts had a non-empty
\* search, a selected candidate, an accepted transfer request and a poll that
\* showed the transfer completed; that attempt is the last one of the call,
\* so no search and no transfer request follows it.
C2_TrueIffAttemptSucceeded ==
  \A j \in Calls :
    Returned(dl[j]) =>
      /\ dl[j].result = "true" <=> dl[j].sawSuccess
      /\ dl[j].result = "true" =>
           /\ dl[j].hadResults
           /\ dl[j].nAccepted >= 1
           /\ dl[j].succAt = dl[j].retries + 1
           /\ dl[j].succAt <= cfg.maxDownloadRetries
           /\ dl[j].nSearch = dl[j].succAt
           /\ dl[j].nInitiate <= dl[j].succAt

C2_Witness ==
  \E j \in Calls :
    /\ Returned(dl[j])
    /\ dl[j].result = "true"
    /\ dl[j].succAt = 1
    /\ dl[j].nSearch = 1
    /\ dl[j].nInitiate = 1

\* The call has been made and its result has not been taken yet.
Active(d) == d.pc \notin {"idle", "settled"}

C5_OneAcquisitionPerKey ==
  \A j, k \in Calls :
    j # k /\ InFlight(dl[j]) /\ InFlight(dl[k]) =>
      trackKey(dl[j].track) # trackKey(dl[k].track)

\* Group number (from 0) of the track at position j of the batch.
groupOf(j) == (j - 1) \div cfg.concurrentDownloads

\* C6: within one batch at most concurrentDownloads calls are in progress at
\* once, and no call of a later group has been made while a call of an
\* earlier group has not returned.
C6_GroupsInSequence ==
  /\ Cardinality({j \in Calls : InFlight(dl[j])}) <= cfg.concurrentDownloads
  /\ \A j, k \in Calls :
       groupOf(j) < groupOf(k) /\ dl[k].pc # "idle" =>
         dl[j].pc \in {"done", "settled"}

C6_Witness ==
  \E j, k \in Calls :
    /\ cfg.concurrentDownloads = 2
    /\ groupOf(j) = 0
    /\ groupOf(k) = 1
    /\ dl[j].pc = "settled"
    /\ InFlight(dl[k])

\* C7: a call never raises: its result is true or false, every failed attempt
\* moved the attempt counter by exactly one (the counter is the number of
\* attempts begun, less the one in progress), and the counter stays within
\* maxDownloadRetries.
C7_NeverRaises ==
  \A j \in Calls :
    /\ dl[j].result \in {"none", "true", "false"}
    /\ dl[j].retries <= cfg.maxDownloadRetries
    /\ InAttempt(dl[j]) => dl[j].retries = dl[j].nSearch - 1
    /\ dl[j].pc = "sleep" => dl[j].retries = dl[j].nSearch
    /\ Returned(dl[j]) =>
         /\ dl[j].result \in {"true", "false"}
         /\ dl[j].result = "true" => dl[j].retries = dl[j].nSearch - 1
         /\ dl[j].result = "false" =>
              /\ dl[j].retries = dl[j].nSearch
              /\ dl[j].retries = cfg.maxDownloadRetries

C7_Witness ==
  \E j \in Calls :
    /\ Returned(dl[j])
    /\ dl[j].cause = "exception"
    /\ dl[j].result = "false"
    /\ dl[j].retries = cfg.maxDownloadRetries

\* C8: a call begins a further attempt only out of the backoff sleep, whose
\* length is 2000 ms times the number of attempts made so far.
C8_BackoffBeforeEveryAttempt ==
  [][\A j \in Calls :
       (/\ j <= Len(dl')
        /\ dl[j].nSearch >= 1
        /\ dl'[j].nSearch = dl[j].nSearch + 1)
       => /\ dl[j].pc = "sleep"
          /\ dl[j].delay = 2000 * dl[j].nSearch]_vars

\* C9: when a call returns, a DELETE request has been sent for every search
\* it created.
C9_EverySearchDeleted ==
  \A j \in Calls : Returned(dl[j]) => dl[j].created \subseteq dl[j].deleted

\* C10: every call returns: the poll loop of a search is left after at most
\* maxAttempts polls, the wait for a transfer before maxWait plus one check
\* interval, the attempt loop after at most maxDownloadRetries attempts.
C10_EveryCallReturns ==
  /\ [](\A j \in Calls :
          /\ dl[j].pc = "poll" => dl[j].attempts < maxAttempts
          /\ dl[j].pc = "wait" => dl[j].elapsed < maxWait
          /\ dl[j].nSearch <= cfg.maxDownloadRetries)
  /\ \A j \in 1..MaxBatch :
       (j <= Len(dl) /\ InFlight(dl[j]))
         ~> (j <= Len(dl) /\ dl[j].pc \in {"done", "settled"})

C10_Witness ==
  \E j \in Calls :
    /\ Returned(dl[j])
    /\ dl[j].result = "false"
    /\ dl[j].cause = "timeout"
    /\ cfg.maxDownloadRetries = 2

\* C11 (as stated): searchTrack hands back no file whenever one of its
\* requests failed or was answered with a malformed body.
C11_AnyFailureYieldsEmpty ==
  \A j \in Calls : dl[j].fault => ~dl[j].got

\* The ways a searchTrack call ends without looking at files.
FinalFaults == {"submit", "timeout", "malformed", "error"}

\* C11 (amended): searchTrack never raises and makes at most maxAttempts
\* polls; it hands back no file when the search could not be created, was not
\* reported complete within maxAttempts polls, answered a malformed responses
\* body, or failed at the last poll; a poll that fails earlier is tried again
\* and the search can still hand back files; the responses are requested only
\* after a status poll reported the search complete and not in progress.
C11_FinalFailureYieldsEmpty ==
  \A j \in Calls :
    /\ dl[j].pc = "poll" => dl[j].attempts < maxAttempts
    /\ dl[j].ended \in FinalFaults => ~dl[j].got
    /\ dl[j].got => dl[j].ended = "responses" /\ dl[j].completeSeen
    /\ dl[j].fetched => dl[j].completeSeen
    /\ dl[j].cause = "exception" => dl[j].got
    /\ dl[j].result # "raised"

C11_Witness ==
  \E j \in Calls :
    /\ dl[j].pc = "initiate"
    /\ dl[j].fault
    /\ dl[j].got
    /\ dl[j].fetched

\* The entry of the transfer list is the transfer of the file: the same peer
\* and the same filename.
SameTransfer(download, file) ==
  /\ download.username = file.username
  /\ \E i \in 1..Len(download.files) :
        download.files[i].filename = file.filename

SuccessStates == {"Completed", "Succeeded"}
FailureStates == {"Cancelled", "Failed", "TimedOut"}

\* The states of the entries of the list that are the transfer of the file.
StatesOf(downloads, file) ==
  {downloads[i].state :
     i \in {k \in 1..Len(downloads) : SameTransfer(downloads[k], file)}}

\* C12: a poll makes the wait return true only if the list shows the transfer
\* of the file in a success state; it makes it return false when the list
\* shows that transfer in a failure state (and in no success state); the
\* entries of other peers or other files change nothing.
C12_MatchingTransferDecides ==
  probe.op = "poll" =>
    LET states == StatesOf(probe.downloads, probe.file)
        own == SelectSeq(probe.downloads,
                         LAMBDA x : SameTransfer(x, probe.file))
    IN  /\ probe.after.result = "true" => states \cap SuccessStates # {}
        /\ states \cap FailureStates # {} /\ states \cap SuccessStates = {} =>
             /\ probe.after.pc # "wait"
             /\ probe.after.result = "false"
             /\ probe.after.cause = "transfer"
        /\ states \cap (SuccessStates \cup FailureStates) = {} =>
             probe.after.cause \notin {"transfer"} /\ probe.after.result # "true"
        /\ probe.after =
             transfersAnswered(Waiting(probe.file, probe.found), probe.now,
                               "list", scanDownloads(own, probe.file, FALSE))

C12_Witness ==
  /\ probe.op = "poll"
  /\ Len(probe.downloads) = 2
  /\ ~SameTransfer(probe.downloads[1], probe.file)
  /\ probe.downloads[1].state = "Completed"
  /\ SameTransfer(probe.downloads[2], probe.file)
  /\ probe.downloads[2].state = "Failed"
  /\ probe.after.result = "false"

\* The list with what its files report of their progress taken away.
eraseProgress(downloads) ==
  [k \in 1..Len(downloads) |->
     [downloads[k] EXCEPT
        !.files = [i \in 1..Len(downloads[k].files) |->
                     [downloads[k].files[i] EXCEPT
                        !.bytesTransferred = <<>>, !.size = <<>>]]]]

\* C19: a poll leaves the wait in the same state, returned or not and with
\* the same result, as the poll of the list without the progress of its
\* files: lists that differ only in bytesTransferred and size decide alike.
C19_ProgressDecidesNothing ==
  probe.op = "poll" =>
    probe.after =
      transfersAnswered(Waiting(probe.file, probe.found), probe.now, "list",
                        scanDownloads(eraseProgress(probe.downloads),
                                      probe.file, FALSE))

C19_Witness ==
  /\ probe.op = "poll"
  /\ probe.log # <<>>
  /\ eraseProgress(probe.downloads) # probe.downloads
  /\ probe.after.pc = "wait"
  /\ probe.after.downloadFound

\* C13: a wait that has not seen the transfer of its file does not go on
\* after the first poll past the 30 s of grace, and a wait that has seen it
\* does not return false for a transfer that never started.
C13_GraceEndsWait ==
  \A j \in Calls :
    /\ dl[j].pc = "wait" /\ ~dl[j].downloadFound =>
         dl[j].elapsed <= 30000 + checkInterval
    /\ dl[j].pc = "sleep" /\ dl[j].cause = "notStarted" => ~dl[j].downloadFound

\* C14: initiateDownload returns true exactly when the request was sent and
\* answered with a status from 200 to 299, and the request is sent exactly
\* when the file has a peer name and a filename.
C14_TrueIffAcknowledged ==
  probe.op = "initiate" =>
    /\ probe.sent <=> probe.file.username # "" /\ probe.file.filename # <<>>
    /\ probe.after.pc = "wait" <=>
         probe.sent /\ probe.status >= 200 /\ probe.status <= 299

\* C15: within an attempt the transfer request is sent only once the search
\* has returned files of which one was chosen, for that file, and the wait
\* begins only once that request was accepted; an attempt whose search
\* returned no file or no acceptable one sends no transfer request.
C15_StepsInSequence ==
  [][\A j \in Calls :
       j <= Len(dl') /\ dl'[j].pc # "settled" =>
         /\ dl'[j].nInitiate # dl[j].nInitiate =>
              /\ dl[j].pc = "poll"
              /\ dl'[j].pc = "initiate"
              /\ dl'[j].nInitiate = dl[j].nInitiate + 1
              /\ dl'[j].nSearch = dl[j].nSearch
              /\ dl'[j].got
              /\ dl'[j].bestMatch # <<>>
         /\ dl'[j].pc = "wait" /\ dl[j].pc # "wait" =>
              /\ dl[j].pc = "initiate"
              /\ dl'[j].nAccepted = dl[j].nAccepted + 1
              /\ dl'[j].bestMatch = dl[j].bestMatch
         /\ dl'[j].pc = "initiate" /\ dl[j].pc # "initiate" =>
              dl[j].pc = "poll"
         /\ dl[j].pc = "poll" /\ dl'[j].cause \in {"empty", "nomatch"} =>
              dl'[j].nInitiate = dl[j].nInitiate]_vars

C15_Witness ==
  \E j \in Calls :
    /\ dl[j].pc = "wait"
    /\ dl[j].nSearch = 2
    /\ dl[j].nInitiate = 1
    /\ dl[j].nAccepted = 1

\* The normalized filename is the normalized artist followed by the
\* normalized title, with or without an audio extension after them.
ExactMatch(file, track) ==
  LET name == normalize(file.filename)
      wanted == normalize(track.artist) \o <<" ">> \o normalize(track.title)
  IN  \/ name = wanted
      \/ \E e \in AudioExts : name = wanted \o <<" ">> \o e

\* C16: the score of an exact normalized artist and title match is 1.0
\* (600 six-hundredths), whatever the length of the words.
C16_ExactMatchScoresOne ==
  probe.op = "score" /\ ExactMatch(probe.file, probe.track) =>
    probe.score = 600

\* The field is reported, with a value below floor.
ReportedBelow(opt, floor) == opt # <<>> /\ opt[1] < floor

\* C17: a file is rejected when its size is reported below 1 MiB, when its
\* bitrate is reported below 128 (0 included), or when its extension is no
\* supported audio format; no other file is rejected, so an absent field
\* rejects nothing.
C17_RejectsSmallAndLowRate ==
  probe.op = "quality" =>
    (probe.ok <=>
       /\ hasExtension(probe.file.filename, AudioExts)
       /\ ~ReportedBelow(probe.file.size, 1048576)
       /\ ~ReportedBelow(probe.file.bitRate, 128))

\* C18: the file selected passes the quality filter, scores above 0.5 if an
\* acceptable file does and above 0.3 otherwise, and no acceptable file
\* scores higher; no file is selected exactly when no acceptable file scores
\* above 0.3.
C18_BestAcceptableSelected ==
  probe.op = "select" =>
    LET R == probe.searchResults
        acc == {i \in 1..Len(R) : isAcceptableQuality(R[i])}
        sc(i) == calculateMatchScore(R[i], probe.track)
    IN  /\ probe.best # <<>> =>
             \E i \in acc :
                /\ R[i] = probe.best[1]
                /\ sc(i) > 180
                /\ (\E k \in acc : sc(k) > 300) => sc(i) > 300
                /\ \A k \in acc : sc(k) <= sc(i)
        /\ probe.best = <<>> <=> ~\E k \in acc : sc(k) > 180

C18_Witness ==
  /\ probe.op = "select"
  /\ Len(probe.searchResults) = 2
  /\ probe.best = <<probe.searchResults[2]>>
  /\ isAcceptableQuality(probe.searchResults[1])
  /\ calculateMatchScore(probe.searchResults[1], probe.track) > 300
  /\ calculateMatchScore(probe.searchResults[1], probe.track)
       < calculateMatchScore(probe.searchResults[2], probe.track)

\* The files of the inventory older than the age cap.
OlderFiles(files, config) ==
  {i \in 1..Len(files) :
     files[i].modified < RotationNow - config.recommendationsMaxAgeDays}

\* C20: over an inventory of M files with M above maxTracks = N, the
\* selection holds no file twice, only files of the inventory, and as many
\* files as the larger of M - N and the number of files older than the age
\* cap, so at least M - N.
C20_SelectionMeetsCap ==
  probe.op = "rotation"
    /\ Len(probe.files) > probe.config.recommendationsMaxTracks =>
    LET sel == probe.filesToRotate
        M == Len(probe.files)
        N == probe.config.recommendationsMaxTracks
        old == Cardinality(OlderFiles(probe.files, probe.config))
    IN  /\ \A a, b \in 1..Len(sel) : sel[a] = sel[b] => a = b
        /\ Range(sel) \subseteq Range(probe.files)
        /\ Len(sel) = (IF old > M - N THEN old ELSE M - N)
        /\ Len(sel) >= M - N

C20_Witness ==
  /\ probe.op = "rotation"
  /\ probe.config.rotationStrategy = "random"
  /\ Len(probe.files) = MaxFiles
  /\ probe.config.recommendationsMaxTracks = 1
  /\ Cardinality(OlderFiles(probe.files, probe.config)) = 1
  /\ Len(probe.filesToRotate) = MaxFiles - 1

\* <stem>.metadata.json next to the file: the path without its last "." and
\* what follows it, and then ".metadata.json".
SidecarOfStem(filePath) ==
  SubSeq(filePath, 1, lastIndexOf(filePath, ".") - 1) \o MetadataSuffix

\* C30: the sidecar path of <stem>.<ext> is <stem>.metadata.json in the
\* directory of the file.
C30_SidecarNamedAfterStem ==
  probe.op = "metadata" => probe.metadataPath = SidecarOfStem(probe.filePath)

\* C21: every file older than the age cap is selected, and the number of
\* selected files that are not older is (M - maxTracks) less the number of
\* older files, or 0 when that is negative, under every strategy.
C21_YoungOnlyForTheCap ==
  probe.op = "rotation" =>
    LET sel == probe.filesToRotate
        old == OlderFiles(probe.files, probe.config)
        young == {a \in 1..Len(sel) :
                    \A i \in old : probe.files[i] # sel[a]}
        needed == (Len(probe.files) - probe.config.recommendationsMaxTracks)
                    - Cardinality(old)
    IN  /\ \A i \in old : probe.files[i] \in Range(sel)
        /\ Cardinality(young) = (IF needed > 0 THEN needed ELSE 0)

C21_Witness ==
  /\ probe.op = "rotation"
  /\ probe.config.rotationStrategy = "oldest_first"
  /\ Cardinality(OlderFiles(probe.files, probe.config)) = 1
  /\ Len(probe.filesToRotate) = 2
  /\ probe.config.recommendationsMaxTracks = 1

\* The audio files of a directory, as a listing without a failure gives them.
AudioIn(d, directory) == getFilesInDirectory(d, directory, {})
CurrentIn(d) == AudioIn(d, mgr.config.recommendationsCurrentPath)
ArchiveIn(d) == AudioIn(d, mgr.config.recommendationsArchivePath)
PathsOf(d) == {e.path : e \in Range(d)}

\* rotateOldTracks was called and returned.
Rotated == mgr.calls > 0 /\ mgr.call.op = "rotateOldTracks" /\ ~mgr.call.raised

\* C22: after a rotation in which no file operation failed, current holds at
\* most recommendationsMaxTracks audio files and none older than
\* recommendationsMaxAgeDays, with and without the archive.
C22_CurrentWithinCaps ==
  Rotated /\ mgr.call.faults = {} =>
    /\ Len(CurrentIn(disk)) <= mgr.config.recommendationsMaxTracks
    /\ \A f \in Range(CurrentIn(disk)) :
         f.modified >= RotationNow - mgr.config.recommendationsMaxAgeDays

C22_Witness ==
  /\ Rotated
  /\ mgr.call.faults = {}
  /\ Len(CurrentIn(mgr.call.before)) = MaxFiles
  /\ \E f \in Range(CurrentIn(mgr.call.before)) :
       f.modified < RotationNow - mgr.config.recommendationsMaxAgeDays
  /\ Len(CurrentIn(disk)) = 1
  /\ mgr.config.enableArchive

\* C23: every rotation with the archive enabled and no failed file operation
\* leaves at most archiveMaxTracks files in the archive, whatever the archive
\* held and whether or not a file was selected; the files evicted are the
\* oldest.
C23_ArchiveWithinQuota ==
  Rotated /\ mgr.call.faults = {} /\ mgr.config.enableArchive =>
    LET moved == {[name |-> f.name, modified |-> f.modified] :
                    f \in Range(mgr.call.selected)}
        stayed == {[name |-> f.name, modified |-> f.modified] :
                     f \in {a \in Range(ArchiveIn(mgr.call.before)) :
                              \A m \in moved : m.name # a.name}}
        evicted == {f \in moved \cup stayed :
                      \A a \in Range(ArchiveIn(disk)) : a.name # f.name}
    IN  /\ Len(ArchiveIn(disk)) <= mgr.config.archiveMaxTracks
        /\ \A kept \in Range(ArchiveIn(disk)), gone \in evicted :
             gone.modified <= kept.modified

\* C24: a file that a rotation moved to the archive and that had a sidecar
\* has its sidecar next to it in the archive, and none is left in current,
\* also when moving the sidecar failed.
C24_SidecarFollowsFile ==
  Rotated /\ mgr.config.enableArchive =>
    \A f \in Range(mgr.call.selected) :
       LET archivePath ==
             mgr.config.recommendationsArchivePath \o <<"/">> \o f.name
       IN  /\ f.path \notin PathsOf(disk)
           /\ archivePath \in PathsOf(disk)
           /\ getMetadataPath(f.path) \in PathsOf(mgr.call.before)
           => /\ getMetadataPath(archivePath) \in PathsOf(disk)
              /\ getMetadataPath(f.path) \notin PathsOf(disk)

\* The call moves no file: what is gone from its place was deleted.
DeletesOnly ==
  /\ mgr.calls > 0
  /\ mgr.call.op = "rotateOldTracks" => ~mgr.config.enableArchive

\* C25: after a call that deleted an audio file (a rotation without archive,
\* the archive eviction, the cleanup of the small files), the sidecar of
\* that file is gone as well.
C25_SidecarDeletedWithFile ==
  DeletesOnly =>
    \A e \in Range(mgr.call.before) :
       /\ ~endsWith(e.path, MetadataSuffix)
       /\ e.path \notin PathsOf(disk)
       => getMetadataPath(e.path) \notin PathsOf(disk)

\* A rotation under oldest_first without a failure, over M files none of
\* which is older than the age cap, M above maxTracks.
OldestFirstPass ==
  /\ Rotated
  /\ mgr.call.faults = {}
  /\ mgr.config.rotationStrategy = "oldest_first"
  /\ Len(CurrentIn(mgr.call.before)) > mgr.config.recommendationsMaxTracks
  /\ \A f \in Range(CurrentIn(mgr.call.before)) :
       f.modified >= RotationNow - mgr.config.recommendationsMaxAgeDays

\* Exactly the M - N oldest files have left current.
OldestRemoved ==
  /\ Len(CurrentIn(disk)) = mgr.config.recommendationsMaxTracks
  /\ Range(CurrentIn(disk)) \subseteq Range(CurrentIn(mgr.call.before))
  /\ \A kept \in Range(CurrentIn(disk)),
        gone \in Range(CurrentIn(mgr.call.before)) \ Range(CurrentIn(disk)) :
       gone.modified <= kept.modified

\* The excess M - N of the pass.
Excess ==
  Len(CurrentIn(mgr.call.before)) - mgr.config.recommendationsMaxTracks

\* C26 as stated: such a pass removes the M - N oldest files and reports
\* {rotated: M - N, deleted: 0} with the archive and {rotated: 0,
\* deleted: M - N} without.
C26_ReportsNoDeletion ==
  OldestFirstPass =>
    /\ OldestRemoved
    /\ mgr.call.rotated = (IF mgr.config.enableArchive THEN Excess ELSE 0)
    /\ mgr.call.deleted = (IF mgr.config.enableArchive THEN 0 ELSE Excess)

\* The files the archive holds once the selected files were moved into it.
ArchiveAfterMove ==
  {f.name : f \in Range(ArchiveIn(mgr.call.before))}
    \cup {f.name : f \in Range(mgr.call.selected)}

\* C26 amended: such a pass removes the M - N oldest files; with the archive
\* it reports rotated = M - N and as deleted the number of files the archive
\* then holds above archiveMaxTracks (0 when it holds no more), and every
\* removed file that was not evicted is in the archive; without the archive
\* it reports {rotated: 0, deleted: M - N}.
C26_ReportsEvictionAsDeleted ==
  OldestFirstPass =>
    LET over == Cardinality(ArchiveAfterMove) - mgr.config.archiveMaxTracks
    IN  /\ OldestRemoved
        /\ mgr.config.enableArchive =>
             /\ mgr.call.rotated = Excess
             /\ mgr.call.deleted = (IF over > 0 THEN over ELSE 0)
             /\ Len(ArchiveIn(disk)) = Cardinality(ArchiveAfterMove)
                                         - mgr.call.deleted
             /\ {f.name : f \in Range(ArchiveIn(disk))}
                  \subseteq ArchiveAfterMove
        /\ ~mgr.config.enableArchive =>
             /\ mgr.call.rotated = 0
             /\ mgr.call.deleted = Excess

C26_Witness ==
  /\ OldestFirstPass
  /\ mgr.config.enableArchive
  /\ Len(CurrentIn(mgr.call.before)) = MaxFiles
  /\ mgr.call.rotated = 1
  /\ mgr.call.deleted = 0
  /\ \E a, b \in Range(CurrentIn(mgr.call.before)) : a.modified < b.modified

\* C27: a rotation in which one operation on one file fails does not raise,
\* still processes the other selected files (at most one of the files it
\* would have removed stays in current), and counts the files it removed.
C27_OneFailureSkipsOneFile ==
  /\ mgr.calls > 0
  /\ mgr.call.op = "rotateOldTracks"
  /\ \E p \in PathsOf(mgr.call.before),
        call \in {"stat", "rename", "unlink"} :
       mgr.call.faults = {<<call, p>>}
  =>
    LET before == CurrentIn(mgr.call.before)
        old == Cardinality(OlderFiles(before, mgr.config))
        excess == Len(before) - mgr.config.recommendationsMaxTracks
        due == IF excess > old THEN excess ELSE old
        removed == Len(before) - Len(CurrentIn(disk))
    IN  /\ ~mgr.call.raised
        /\ removed >= due - 1
        /\ removed = (IF mgr.config.enableArchive
                      THEN mgr.call.rotated ELSE mgr.call.deleted)

\* C28: a rotation without the archive deletes the selected files, reports
\* rotated = 0, makes no archive directory, and leaves the files of the
\* archive as they were, above its quota or not.
C28_NoArchiveUntouched ==
  mgr.calls > 0 /\ mgr.call.op = "rotateOldTracks"
    /\ ~mgr.config.enableArchive =>
    LET inArchive(e) ==
          SubSeq(e.path, 1, lastIndexOf(e.path, "/") - 1)
            = mgr.config.recommendationsArchivePath
    IN  /\ ~mgr.call.raised
        /\ mgr.call.rotated = 0
        /\ ~mgr.call.mkdir
        /\ SelectSeq(disk, inArchive) = SelectSeq(mgr.call.before, inArchive)
        /\ \A f \in Range(mgr.call.selected) :
             <<"unlink", f.path>> \notin mgr.call.faults
               => f.path \notin PathsOf(disk)
        /\ mgr.call.deleted =
             Cardinality({f \in Range(mgr.call.selected) :
                            <<"unlink", f.path>> \notin mgr.call.faults})

C28_Witness ==
  /\ Rotated
  /\ ~mgr.config.enableArchive
  /\ Len(mgr.call.selected) = 2
  /\ mgr.call.deleted = 2
  /\ Len(ArchiveIn(disk)) > mgr.config.archiveMaxTracks

\* The call has returned or raised after downloads whose import raised.
ImportFailed ==
  /\ run.pc = "done"
  /\ run.answers.import = "raise"
  /\ "importToRecommendations" \in Range(run.out.calls)

\* C29: when the import step raises after a batch of downloads,
\* syncRecommendations goes on to the playlist update and raises only if that
\* update raises; newDownloads and failedDownloads are the numbers of
\* successful and failed downloads, and the result is, the errors aside, the
\* one of the same call with a successful import.
C29_ImportFailureNotFatal ==
  ImportFailed =>
    LET a == run.answers
        out == run.out
        fine == syncRecommendations([a EXCEPT !.import = "files"])
    IN  /\ out.raised => a.playlist = "raise"
        /\ out.result.newDownloads = a.successful
        /\ out.result.failedDownloads
             = a.recommendations - a.existing - a.successful
        /\ "updatePlaylist" \in Range(out.calls)
        /\ out.raised = fine.raised
        /\ [out.result EXCEPT !.errors = <<>>]
             = [fine.result EXCEPT !.errors = <<>>]
        /\ "Beets processing failed" \in Range(out.result.errors)

C29_Witness ==
  /\ ImportFailed
  /\ ~run.out.raised
  /\ run.out.result.newDownloads > 0
  /\ run.out.result.failedDownloads > 0
  /\ run.out.result.addedToPlaylist > 0

\* The directory of a path: what precedes its last "/".
DirectoryOf(path) == SubSeq(path, 1, lastIndexOf(path, "/") - 1)

\* C35: two distinct audio files of one directory never have the same
\* sidecar path.
C35_SidecarPathInjective ==
  probe.op = "metadata" =>
    \A other \in AudioPaths :
      (other # probe.filePath
         /\ DirectoryOf(other) = DirectoryOf(probe.filePath))
        => getMetadataPath(other) # probe.metadataPath

\* C38: under oldest_first, and under least_played which sorts the same
\* way, no file left unselected by selectFilesForRotation is older than a
\* selected file.
C38_SelectionClosedUnderAge ==
  (probe.op = "rotation"
     /\ probe.config.rotationStrategy \in {"oldest_first", "least_played"}) =>
    \A i \in 1..Len(probe.files) :
      probe.files[i] \notin Range(probe.filesToRotate) =>
        \A k \in 1..Len(probe.filesToRotate) :
          probe.files[i].modified >= probe.filesToRotate[k].modified

\* A full inventory under least_played, the newest file listed first
\* and one older than the age cap: that one and the older of the two others
\* are selected, and the newest stays.
C38_Witness ==
  /\ probe.op = "rotation"
  /\ probe.config.rotationStrategy = "least_played"
  /\ Len(probe.files) = MaxFiles
  /\ Cardinality(OlderFiles(probe.files, probe.config)) = 1
  /\ Len(probe.filesToRotate) = MaxFiles - 1
  /\ probe.files[1] \notin Range(probe.filesToRotate)
  /\ \A k \in 1..Len(probe.filesToRotate) :
       probe.files[1].modified > probe.filesToRotate[k].modified

\* The normalized filename holds neither the normalized artist, nor the
\* normalized title, nor one of their words of more than two characters.
MatchesNothing(file, track) ==
  LET fileName == normalize(file.filename)
      searchArtist == normalize(track.artist)
      searchTitle == normalize(track.title)
      words == longWords(searchArtist) \o longWords(searchTitle)
  IN  /\ ~includes(fileName, searchArtist)
      /\ ~includes(fileName, searchTitle)
      /\ \A i \in 1..Len(words) : ~includes(fileName, words[i])

\* C32: a candidate that matches nothing of the wanted track scores at most
\* 0.15 (90 six-hundredths), the format and bitrate bonuses, and
\* selectBestMatch never returns it.
C32_NoMatchNeverSelected ==
  /\ (probe.op = "score" /\ MatchesNothing(probe.file, probe.track)) =>
       probe.score <= 90
  /\ (probe.op = "select" /\ probe.best # <<>>) =>
       ~MatchesNothing(probe.best[1], probe.track)

\* The list starts with a file of acceptable quality that matches nothing,
\* and the file after it is the one selected.
C32_Witness ==
  /\ probe.op = "select"
  /\ Len(probe.searchResults) = 2
  /\ MatchesNothing(probe.searchResults[1], probe.track)
  /\ isAcceptableQuality(probe.searchResults[1])
  /\ calculateMatchScore(probe.searchResults[1], probe.track) > 0
  /\ probe.best = <<probe.searchResults[2]>>

\* The single-threshold policy: the first candidate, in descending score
\* order with ties in the order of the list, that passes the quality filter
\* and scores above 0.3; <<>> when there is none.
SingleThreshold(searchResults, track) ==
  LET sorted ==
        sortByScore([i \in 1..Len(searchResults) |->
                       [file |-> searchResults[i],
                        score |-> calculateMatchScore(searchResults[i], track)]])
      passing ==
        SelectSeq(sorted,
                  LAMBDA r : r.score > 180 /\ isAcceptableQuality(r.file))
  IN  IF passing = <<>> THEN <<>> ELSE <<passing[1].file>>

\* C37: the result of selectBestMatch is the one of the single-threshold
\* policy, for every result list and track.
C37_TwoTiersAsOneThreshold ==
  probe.op = "select" =>
    probe.best = SingleThreshold(probe.searchResults, probe.track)

\* The fallback filter decides: the first file of the list scores higher and
\* fails the quality filter, the second scores between 0.3 and 0.5 and is
\* selected.
C37_Witness ==
  /\ probe.op = "select"
  /\ Len(probe.searchResults) = 2
  /\ ~isAcceptableQuality(probe.searchResults[1])
  /\ calculateMatchScore(probe.searchResults[1], probe.track) > 300
  /\ calculateMatchScore(probe.searchResults[2], probe.track) \in 181..300
  /\ probe.best = <<probe.searchResults[2]>>

\* C34: a rotation with the archive enabled in which no file operation
\* failed leaves as many files in current and archive together as there were
\* before it, less the deleted count it returns: a file moved to the archive
\* replaces none of the archive.
C34_MoveReplacesNothing ==
  Rotated /\ mgr.call.faults = {} /\ mgr.config.enableArchive =>
    Len(CurrentIn(disk)) + Len(ArchiveIn(disk))
      = Len(CurrentIn(mgr.call.before)) + Len(ArchiveIn(mgr.call.before))
          - mgr.call.deleted

\* rotateOldTracks returned right after a call of it in which no file
\* operation failed.
RotatedAgain ==
  /\ Rotated
  /\ mgr.call.previous.op = "rotateOldTracks"
  /\ mgr.call.previous.faults = {}
  /\ ~mgr.call.previous.raised

\* C39: a rotation right after a rotation in which no file operation failed
\* selects nothing, leaves current and archive as they are and returns
\* {rotated: 0, deleted: 0}.
C39_SecondRotationIdle ==
  /\ (mgr.calls > 0 /\ mgr.call.op = "rotateOldTracks"
        /\ mgr.call.previous.op = "rotateOldTracks"
        /\ mgr.call.previous.faults = {}) => ~mgr.call.raised
  /\ RotatedAgain =>
       /\ mgr.call.selected = <<>>
       /\ disk = mgr.call.before
       /\ mgr.call.rotated = 0
       /\ mgr.call.deleted = 0

\* The first rotation moved two files and evicted one; the second found
\* current at its cap and the archive at its quota.
C39_Witness ==
  /\ RotatedAgain
  /\ mgr.call.previous.rotated = 2
  /\ mgr.call.previous.deleted = 1
  /\ mgr.call.faults = {}
  /\ Len(CurrentIn(disk)) = 1
  /\ Len(ArchiveIn(disk)) = 1

\* C31: no search of a call is deleted while the call is in flight, in the
\* wait for a transfer least of all: the searches of a call are deleted when
\* the wait of an attempt has returned true, or when the last attempt has
\* failed.
C31_SearchesKeptUntilTheEnd ==
  \A j \in Calls :
    /\ InFlight(dl[j]) => dl[j].deleted = {}
    /\ dl[j].deleted # {} =>
         /\ Returned(dl[j])
         /\ \/ dl[j].result = "true" /\ dl[j].sawSuccess
            \/ /\ dl[j].result = "false"
               /\ dl[j].retries >= cfg.maxDownloadRetries

\* The transfer of the first attempt was awaited and failed, the one of the
\* second attempt completed, and both searches were deleted then.
C31_Witness ==
  \E j \in Calls :
    /\ Returned(dl[j])
    /\ dl[j].result = "true"
    /\ dl[j].nAccepted = 2
    /\ Cardinality(dl[j].deleted) = 2

\* C33: the wait is decided by the transfer its attempt requested: whatever
\* terminal records of the same peer and filename the backend held before
\* the request, the first poll, which finds the requested transfer queued or
\* in progress, leaves the wait going, as it does when the list holds that
\* transfer alone.
C33_StaleRecordDecidesNothing ==
  probe.op = "stale" =>
    /\ probe.after.pc = "wait"
    /\ probe.after =
         transfersAnswered(Waiting(probe.file, FALSE), 0, "list",
                           scanDownloads(<<probe.own>>, probe.file, FALSE))

\* The calls of syncRecommendations that have not returned.
RunningSyncs ==
  {i \in 1..Len(run.syncs) : run.syncs[i].at # "returned"}

\* C36: at most one syncRecommendations call is running in the process: the
\* scheduled job starts none while the startup sync or an earlier scheduled
\* sync has not returned.
C36_NoTwoSyncsAtOnce ==
  run.pc = "main" => Cardinality(RunningSyncs) <= 1

====
